---- MODULE Spec2Model ----
(***************************************************************************)
(* A model of the zephyr-route BGP-4 wire codec: the Buffer cursor, the    *)
(* primitive integer codecs, the BGP header, the prefix, path-attribute,   *)
(* optional-parameter and capability codecs and the Packet codec.          *)
(*                                                                         *)
(* Every read/write function of the source is an operator that takes the   *)
(* buffer and returns a result record [tag, val, buf]:                     *)
(*   tag = "Ok"    the function returned Ok(val); buf is the buffer after  *)
(*   tag = "Err"   the function returned Err(val); buf is the buffer after *)
(*   tag = "Panic" the function panicked (an unwrap on None)               *)
(*   tag = "UB"    the function executed undefined behaviour whose outcome *)
(*                 is not a value of the result type                       *)
(* 32-bit and 64-bit integers are sequences of 16-bit limbs, most          *)
(* significant limb first, so that every value of the type is              *)
(* representable; the byte conversions are computed limb by limb.          *)
(***************************************************************************)
EXTENDS Integers, Sequences, FiniteSets, TLC

VARIABLES
    features,   \* the cargo features of the build: [route_refresh, multiprotocol]
    input,      \* the input drawn for the run (bytes, header fields or a value)
    buffer,     \* the Buffer the operations act on
    start,      \* the position of the buffer when the last operation was called
    result,     \* the result record of the last operation
    decoded,    \* the value the last successful decode returned
    peeked,     \* the result record of the last peek
    child,      \* a second Buffer: the one read_buffer returned, or the
                \* buffer Packet::receive decodes from
    pc          \* which operation has been applied last

vars ==
    <<features, input, buffer, start, result, decoded, peeked, child, pc>>

----------------------------------------------------------------------------
(* Results and errors *)

Ok(v, b) == [tag |-> "Ok", val |-> v, buf |-> b]
Err(e, b) == [tag |-> "Err", val |-> e, buf |-> b]
Panic(b) == [tag |-> "Panic", val |-> "panic", buf |-> b]
UB(b) == [tag |-> "UB", val |-> "undefined", buf |-> b]

\* the ? operator in a function whose own buffer is b: the failure of the
\* callee r is returned as it is
Fail(r, b) == [r EXCEPT !.buf = b]

\* let v = r?; K(v, buffer after r): the rest of the function runs on the
\* value and the buffer the callee left
Try(r, K(_, _)) == IF r.tag # "Ok" THEN r ELSE K(r.val, r.buf)

\* the same where the callee ran on a bounded copy t or a scratch buffer and
\* the function's own buffer is b: K gets the callee's buffer, a failure
\* leaves b
TryIn(r, b, K(_, _)) == IF r.tag # "Ok" THEN Fail(r, b) ELSE K(r.val, r.buf)

\* ErrorType: ReadError, WriteError, OtherError, BGPError(error_code, sub_code)
ReadError == [ty |-> "ReadError", code |-> 0, sub |-> 0]
WriteError == [ty |-> "WriteError", code |-> 0, sub |-> 0]
OtherError == [ty |-> "OtherError", code |-> 0, sub |-> 0]
BGPError(code, sub) == [ty |-> "BGPError", code |-> code, sub |-> sub]

\* ErrorCode and the sub-codes, by their wire value
MessageHeader == 1
OpenMessage == 2
ConnectionNotSynchronized == 1
BadMessageLength == 2
BadMessageType == 3
UnsupportedOptionalParameter == 4
UnacceptableHoldTime == 6

header_error(sub) == BGPError(MessageHeader, sub)
open(sub) == BGPError(OpenMessage, sub)

----------------------------------------------------------------------------
(* Buffer *)

from_vec(bytes, order) == [bytes |-> bytes, position |-> 0, order |-> order]
empty(order) == [bytes |-> <<>>, position |-> 0, order |-> order]
len(b) == Len(b.bytes)
remaining(b) == Len(b.bytes) - b.position
is_empty(b) == remaining(b) = 0
\* Buffer::capacity: from_vec(vec![0; capacity], order)
capacity(n, order) == from_vec([k \in 1..n |-> 0], order)

reset_position(b) == [b EXCEPT !.position = 0]

\* Vec::insert(position, byte), then position += 1
u8_write(v, b) ==
    Ok(v, [b EXCEPT !.bytes = SubSeq(b.bytes, 1, b.position) \o <<v>>
                               \o SubSeq(b.bytes, b.position + 1, Len(b.bytes)),
                    !.position = b.position + 1])

u8_read(b) ==
    IF is_empty(b) THEN Err(ReadError, b)
    ELSE Ok(b.bytes[b.position + 1], [b EXCEPT !.position = b.position + 1])

\* write_bytes_array / write_bytes_slice / write_bytes_vector: one u8::write
\* per byte, in order. Each u8::write inserts its byte at the position and
\* advances it, so the loop inserts the whole of data at the position.
write_bytes(data, b) ==
    [b EXCEPT !.bytes = SubSeq(b.bytes, 1, b.position) \o data
                          \o SubSeq(b.bytes, b.position + 1, Len(b.bytes)),
              !.position = b.position + Len(data)]

write_buffer(src, b) == Ok(0, write_bytes(src.bytes, b))

\* the n calls of u8::read(self).unwrap() that follow the availability check:
\* each returns the byte at the position and advances it; the unwrap panics
\* when the buffer runs empty before the n-th byte
read_n(b, n) ==
    IF remaining(b) < n
    THEN Panic([b EXCEPT !.position = Len(b.bytes)])
    ELSE Ok(SubSeq(b.bytes, b.position + 1, b.position + n),
            [b EXCEPT !.position = b.position + n])

\* a read without the availability check
read_bytes_vector_Unchecked(b, length) == read_n(b, length)

read_bytes_vector(b, length) ==
    IF remaining(b) < length THEN Err(ReadError, b)
    ELSE read_n(b, length)

read_bytes_array(b, L) ==
    IF remaining(b) < L THEN Err(ReadError, b)
    ELSE read_n(b, L)

\* a cursor that is big-endian whatever the order of the parent
read_buffer_BigEndian(b, length) ==
    Try(read_bytes_vector(b, length),
        LAMBDA bytes, b1 : Ok(from_vec(bytes, "BigEndian"), b1))

read_buffer(b, length) ==
    Try(read_bytes_vector(b, length),
        LAMBDA bytes, b1 : Ok(from_vec(bytes, b.order), b1))

\* a skip that advances without the comparison with remaining()
skip_Unchecked(b, n) ==
    Ok(0, [b EXCEPT !.position = b.position + n])

skip(b, n) ==
    IF remaining(b) < n THEN Err(OtherError, b)
    ELSE Ok(0, [b EXCEPT !.position = b.position + n])

Reverse(s) == [i \in 1..Len(s) |-> s[Len(s) + 1 - i]]

\* to_be_bytes / to_le_bytes and from_be_bytes / from_le_bytes by byte order
Ordered(bytes, order) == IF order = "BigEndian" THEN bytes ELSE Reverse(bytes)

\* WriteRead::peek: r is what Self::read returned for the buffer that stood
\* at position; a read that does not return never reaches the assignment
peek(r, position) ==
    IF r.tag \in {"Ok", "Err"}
    THEN [r EXCEPT !.buf.position =
                       r.buf.position - (r.buf.position - position)]
    ELSE r

----------------------------------------------------------------------------
(* Primitive integer codecs (write_read_number!) *)

u16_to_be_bytes(v) == <<v \div 256, v % 256>>
u16_from_be_bytes(a) == a[1] * 256 + a[2]

u16_write(v, b) == Ok(0, write_bytes(Ordered(u16_to_be_bytes(v), b.order), b))

u16_read(b) ==
    Try(read_bytes_array(b, 2),
        LAMBDA a, b1 : Ok(u16_from_be_bytes(Ordered(a, b.order)), b1))

\* u32 = <<hi16, lo16>>
u32_to_be_bytes(v) == u16_to_be_bytes(v[1]) \o u16_to_be_bytes(v[2])
u32_from_be_bytes(a) ==
    <<u16_from_be_bytes(SubSeq(a, 1, 2)), u16_from_be_bytes(SubSeq(a, 3, 4))>>

u32_write(v, b) == Ok(0, write_bytes(Ordered(u32_to_be_bytes(v), b.order), b))

u32_read(b) ==
    Try(read_bytes_array(b, 4),
        LAMBDA a, b1 : Ok(u32_from_be_bytes(Ordered(a, b.order)), b1))

\* u64 = <<limb3, limb2, limb1, limb0>>, 16 bits each
u64_to_be_bytes(v) ==
    u16_to_be_bytes(v[1]) \o u16_to_be_bytes(v[2])
        \o u16_to_be_bytes(v[3]) \o u16_to_be_bytes(v[4])
u64_from_be_bytes(a) ==
    <<u16_from_be_bytes(SubSeq(a, 1, 2)), u16_from_be_bytes(SubSeq(a, 3, 4)),
      u16_from_be_bytes(SubSeq(a, 5, 6)), u16_from_be_bytes(SubSeq(a, 7, 8))>>

u64_write(v, b) == Ok(0, write_bytes(Ordered(u64_to_be_bytes(v), b.order), b))

u64_read(b) ==
    Try(read_bytes_array(b, 8),
        LAMBDA a, b1 : Ok(u64_from_be_bytes(Ordered(a, b.order)), b1))

\* The integer types by name. A value is its sequence of 16-bit limbs, most
\* significant first: one limb for u8, i8, u16 and i16, two for u32 and
\* i32, four for u64 and i64. The first limb of a signed type is signed, so
\* that the value is limb[1] * 2^16 + limb[2] for i32, and so on.
NumberTypes == {"u8", "i8", "u16", "i16", "u32", "i32", "u64", "i64"}

\* size_of::<$tt>()
Width(ty) ==
    CASE ty \in {"u8", "i8"} -> 1
      [] ty \in {"u16", "i16"} -> 2
      [] ty \in {"u32", "i32"} -> 4
      [] OTHER -> 8

\* the i16 with the bits of the u16 p
as_i16(p) == IF p >= 32768 THEN p - 65536 ELSE p

\* $tt::to_be_bytes: the two's complement of a signed value
to_be_bytes(ty, v) ==
    CASE ty \in {"u8", "i8"} -> <<v[1] % 256>>
      [] ty \in {"u16", "i16"} -> u16_to_be_bytes(v[1] % 65536)
      [] ty \in {"u32", "i32"} -> u32_to_be_bytes(<<v[1] % 65536, v[2]>>)
      [] OTHER -> u64_to_be_bytes(<<v[1] % 65536, v[2], v[3], v[4]>>)

\* $tt::from_be_bytes
from_be_bytes(ty, a) ==
    CASE ty = "u8" -> <<a[1]>>
      [] ty = "i8" -> <<IF a[1] >= 128 THEN a[1] - 256 ELSE a[1]>>
      [] ty = "u16" -> <<u16_from_be_bytes(a)>>
      [] ty = "i16" -> <<as_i16(u16_from_be_bytes(a))>>
      [] ty = "u32" -> u32_from_be_bytes(a)
      [] ty = "i32" ->
            <<as_i16(u32_from_be_bytes(a)[1]), u32_from_be_bytes(a)[2]>>
      [] ty = "u64" -> u64_from_be_bytes(a)
      [] OTHER ->
            <<as_i16(u64_from_be_bytes(a)[1]), u64_from_be_bytes(a)[2],
              u64_from_be_bytes(a)[3], u64_from_be_bytes(a)[4]>>

\* write of write_read_number!($tt), and u8::write for u8
number_write(ty, v, b) ==
    IF ty = "u8" THEN u8_write(v[1], b)
    ELSE Ok(0, write_bytes(Ordered(to_be_bytes(ty, v), b.order), b))

\* a read that takes the bytes as big-endian whatever the order
number_read_BigEndian(ty, b) ==
    IF ty = "u8" THEN Try(u8_read(b), LAMBDA x, b1 : Ok(<<x>>, b1))
    ELSE Try(read_bytes_array(b, Width(ty)),
             LAMBDA a, b1 : Ok(from_be_bytes(ty, a), b1))

\* read of write_read_number!($tt), and u8::read for u8
number_read(ty, b) ==
    IF ty = "u8" THEN Try(u8_read(b), LAMBDA x, b1 : Ok(<<x>>, b1))
    ELSE Try(read_bytes_array(b, Width(ty)),
             LAMBDA a, b1 : Ok(from_be_bytes(ty, Ordered(a, b.order)), b1))

----------------------------------------------------------------------------
(* PacketType and BGPHeader *)

\* the variants of PacketType the build has (RouteRefresh is feature-gated)
PacketTypes(f) ==
    {"Open", "Update", "Notification", "KeepAlive", "Unexpected"}
        \cup (IF f.route_refresh THEN {"RouteRefresh"} ELSE {})

\* self.ty as u8
PacketType_as_u8(ty) ==
    CASE ty = "Open" -> 1
      [] ty = "Update" -> 2
      [] ty = "Notification" -> 3
      [] ty = "KeepAlive" -> 4
      [] ty = "RouteRefresh" -> 5
      [] OTHER -> 255

\* What a transmute of a byte that is no discriminant of the enum can behave
\* as: any variant of the build, or a value that equals no variant.
PacketTypeUB(f) == PacketTypes(f) \cup {"Invalid"}

\* impl From<u8> for PacketType: values outside 1..=5 are Unexpected, every
\* other value is transmuted. 5 is a discriminant only with
\* bgp_route_refresh; without it the transmute is undefined behaviour and
\* ub.pt is what it yields.
PacketType_from(v, f, ub) ==
    IF ~(v \in 1..5) THEN "Unexpected"
    ELSE CASE v = 1 -> "Open"
           [] v = 2 -> "Update"
           [] v = 3 -> "Notification"
           [] v = 4 -> "KeepAlive"
           [] v = 5 -> IF f.route_refresh THEN "RouteRefresh" ELSE ub.pt

\* impl From<&Packet> for PacketType
PacketType_of(packet) == packet.kind

FF16 == <<255, 255, 255, 255, 255, 255, 255, 255,
         255, 255, 255, 255, 255, 255, 255, 255>>

by_type(ty, length) == [marker |-> FF16, length |-> length, ty |-> ty]

BGPHeader_write(h, b) ==
    u8_write(PacketType_as_u8(h.ty),
             u16_write(h.length, write_bytes(h.marker, b)).buf)

\* the conditions of the eight checks of BGPHeader::read
\* a bounds check that has lost its lower bound
LengthOutOfBounds_NoLowerBound(header) == header.length > 4096
LengthOutOfBounds(header) == header.length < 19 \/ header.length > 4096
KeepAliveLengthBad(header) == header.ty = "KeepAlive" /\ header.length # 19
\* an Open check that is off by one
OpenLengthBad_OffByOne(header) == header.ty = "Open" /\ header.length < 28
OpenLengthBad(header) == header.ty = "Open" /\ header.length < 29
UpdateLengthBad(header) == header.ty = "Update" /\ header.length < 23
NotificationLengthBad(header) ==
    header.ty = "Notification" /\ header.length < 21
LengthExceedsBuffer(header, b) == header.length > len(b)
TypeUnexpected(header) == header.ty = "Unexpected"
\* a marker check that looks at the first byte only
MarkerBad_FirstByteOnly(header) == header.marker[1] # 255
MarkerBad(header) == header.marker # FF16

\* the eight checks of BGPHeader::read, in the order of the code
BGPHeader_validate(header, b) ==
    IF LengthOutOfBounds(header)
        THEN Err(header_error(BadMessageLength), b)
    ELSE IF KeepAliveLengthBad(header)
        THEN Err(header_error(BadMessageLength), b)
    ELSE IF OpenLengthBad(header)
        THEN Err(header_error(BadMessageLength), b)
    ELSE IF UpdateLengthBad(header)
        THEN Err(header_error(BadMessageLength), b)
    ELSE IF NotificationLengthBad(header)
        THEN Err(header_error(BadMessageLength), b)
    ELSE IF LengthExceedsBuffer(header, b)
        THEN Err(header_error(BadMessageLength), b)
    ELSE IF TypeUnexpected(header)
        THEN Err(header_error(BadMessageType), b)
    ELSE IF MarkerBad(header)
        THEN Err(header_error(ConnectionNotSynchronized), b)
    ELSE Ok(header, b)

BGPHeader_read(b, f, ub) ==
    Try(read_bytes_array(b, 16), LAMBDA marker, b1 :
    Try(u16_read(b1), LAMBDA length, b2 :
    Try(u8_read(b2), LAMBDA ty, b3 :
    BGPHeader_validate([marker |-> marker, length |-> length,
                        ty |-> PacketType_from(ty, f, ub)], b3))))

----------------------------------------------------------------------------
(* RoutePrefix *)

RoutePrefix_write(p, b) ==
    Ok(0, write_bytes(p.prefix, u8_write(p.prefix_length, b).buf))

\* a read that takes the whole bytes of the prefix length only
RoutePrefix_read_WholeBytes(b) ==
    Try(u8_read(b), LAMBDA prefix_length, b1 :
    Try(read_bytes_vector(b1, prefix_length \div 8), LAMBDA prefix, b2 :
    Ok([prefix_length |-> prefix_length, prefix |-> prefix], b2)))

RoutePrefix_read(b) ==
    Try(u8_read(b), LAMBDA prefix_length, b1 :
    Try(read_bytes_vector(b1, (prefix_length + 7) \div 8), LAMBDA prefix, b2 :
    Ok([prefix_length |-> prefix_length, prefix |-> prefix], b2)))

\* for route in routes { route.write(buffer)?; }
RECURSIVE write_prefixes(_, _)
write_prefixes(routes, b) ==
    IF routes = <<>> THEN Ok(0, b)
    ELSE Try(RoutePrefix_write(Head(routes), b),
             LAMBDA x, b1 : write_prefixes(Tail(routes), b1))

\* while buffer.remaining() > 0 { routes.push(RoutePrefix::read(buffer)?); }
RECURSIVE read_prefixes(_, _)
read_prefixes(b, acc) ==
    IF ~(remaining(b) > 0) THEN Ok(acc, b)
    ELSE Try(RoutePrefix_read(b),
             LAMBDA route, b1 : read_prefixes(b1, Append(acc, route)))

----------------------------------------------------------------------------
(* AFI and SAFI: [kind |-> "Known" | "Unexpected", v |-> raw value] *)

AFIValues == {1, 2}
SAFIValues == {1, 2, 4, 5, 66, 128, 129, 132, 133}

AFI_from(v) ==
    IF v \in AFIValues THEN [kind |-> "Known", v |-> v]
    ELSE [kind |-> "Unexpected", v |-> v]

SAFI_from(v) ==
    IF v \in SAFIValues THEN [kind |-> "Known", v |-> v]
    ELSE [kind |-> "Unexpected", v |-> v]

\* impl Into<Result<u16, u16>> for AFI, impl Into<Result<u8, u8>> for SAFI:
\* Ok(raw) for a named family, Err(raw) for Unexpected(raw); the callers
\* turn the Err into a ReadError
Family_into(x, b) ==
    IF x.kind = "Known" THEN Ok(x.v, b) ELSE Err(ReadError, b)

----------------------------------------------------------------------------
(* Capability and OptionalParameter *)

\* Capability::id; -1 is None
Capability_id(c) ==
    CASE c.kind = "MultiProtocolExtensions" -> 1
      [] c.kind = "RouteRefresh" -> 2
      [] c.kind = "FourOctetASNumberSupport" -> 65
      [] c.kind = "EnhancedRouteRefresh" -> 70
      [] c.kind = "LongLivedGracefulRestart" -> 71
      [] OTHER -> -1

\* a write that emits the id an Unknown capability carries
Capability_write_id_Passthrough(c, b) ==
    IF Capability_id(c) # -1 THEN u8_write(Capability_id(c), b)
    ELSE u8_write(c.id, b)

\* the first match of Capability::write: the id, into buffer
Capability_write_id(c, b) ==
    IF Capability_id(c) # -1 THEN u8_write(Capability_id(c), b)
    ELSE IF c.kind = "Unknown"
         THEN Err(open(UnsupportedOptionalParameter), b)
         ELSE Ok(0, b)

\* the second match of Capability::write: the value, into temp_buffer
Capability_write_value(c, t) ==
    CASE c.kind = "FourOctetASNumberSupport" -> u64_write(c.v, t)
      [] c.kind = "MultiProtocolExtensions" ->
            Try(Family_into(c.afi, t), LAMBDA afi, t0 :
            Try(u16_write(afi, t0), LAMBDA x, t1 :
            Try(u8_write(0, t1), LAMBDA y, t2 :
            Try(Family_into(c.safi, t2), LAMBDA safi, t3 :
            u8_write(safi, t3)))))
      [] OTHER -> Ok(0, t)

\* a value written without its length byte
write_u8_length_prefixed_NoLength(t, b) == write_buffer(t, b)

\* (temp_buffer.len() as u8).write(buffer)?; temp_buffer.write_buffer(buffer)
write_u8_length_prefixed(t, b) ==
    write_buffer(t, u8_write(len(t) % 256, b).buf)

Capability_write(c, b) ==
    Try(Capability_write_id(c, b), LAMBDA x, b1 :
    TryIn(Capability_write_value(c, empty("BigEndian")), b1, LAMBDA y, t :
    write_u8_length_prefixed(t, b1)))

\* the match of Capability::read on the id: t is the bounded copy of the
\* value, p the parent buffer positioned after it
Capability_read_value(id, t, p, f) ==
    CASE id = 1 /\ f.multiprotocol ->
            TryIn(u16_read(t), p, LAMBDA afi, t1 :
            TryIn(u8_read(t1), p, LAMBDA reserved, t2 :
            TryIn(u8_read(t2), p, LAMBDA safi, t3 :
            Ok([kind |-> "MultiProtocolExtensions", afi |-> AFI_from(afi),
                safi |-> SAFI_from(safi)], p))))
      [] id = 2 /\ f.route_refresh -> Ok([kind |-> "RouteRefresh"], p)
      [] id = 65 ->
            TryIn(u64_read(t), p, LAMBDA v, t1 :
            Ok([kind |-> "FourOctetASNumberSupport", v |-> v], p))
      [] id = 70 /\ f.route_refresh -> Ok([kind |-> "EnhancedRouteRefresh"], p)
      [] id = 71 -> Ok([kind |-> "LongLivedGracefulRestart"], p)
      [] OTHER -> Ok([kind |-> "Unknown", id |-> id, bytes |-> t.bytes], p)

Capability_read(b, f) ==
    Try(u8_read(b), LAMBDA id, b1 :
    Try(u8_read(b1), LAMBDA length, b2 :
    Try(read_buffer(b2, length), LAMBDA t, b3 :
    Capability_read_value(id, t, b3, f))))

RECURSIVE write_capabilities(_, _)
write_capabilities(caps, b) ==
    IF caps = <<>> THEN Ok(0, b)
    ELSE Try(Capability_write(Head(caps), b),
             LAMBDA x, b1 : write_capabilities(Tail(caps), b1))

RECURSIVE read_capabilities(_, _, _)
read_capabilities(b, f, acc) ==
    IF ~(remaining(b) > 0) THEN Ok(acc, b)
    ELSE Try(Capability_read(b, f),
             LAMBDA c, b1 : read_capabilities(b1, f, Append(acc, c)))

\* OptionalParameter::id
OptionalParameter_id(o) == 2

OptionalParameter_write(o, b) ==
    Try(u8_write(OptionalParameter_id(o), b), LAMBDA x, b1 :
    TryIn(write_capabilities(o.capabilities, empty("BigEndian")), b1,
          LAMBDA y, t : write_u8_length_prefixed(t, b1)))

OptionalParameter_read(b, f) ==
    Try(u8_read(b), LAMBDA id, b1 :
    Try(u8_read(b1), LAMBDA length, b2 :
    Try(read_buffer(b2, length), LAMBDA t, b3 :
    IF id = 2
    THEN TryIn(read_capabilities(t, f, <<>>), b3, LAMBDA capabilities, t1 :
         Ok([kind |-> "Capabilities", capabilities |-> capabilities], b3))
    ELSE Err(ReadError, b3))))

RECURSIVE write_opt_params(_, _)
write_opt_params(params, b) ==
    IF params = <<>> THEN Ok(0, b)
    ELSE Try(OptionalParameter_write(Head(params), b),
             LAMBDA x, b1 : write_opt_params(Tail(params), b1))

RECURSIVE read_opt_params(_, _, _)
read_opt_params(b, f, acc) ==
    IF ~(remaining(b) > 0) THEN Ok(acc, b)
    ELSE Try(OptionalParameter_read(b, f),
             LAMBDA o, b1 : read_opt_params(b1, f, Append(acc, o)))

----------------------------------------------------------------------------
(* Path attributes *)

\* Origin::from: IGP = 0, EGP = 1, Incomplete = 2
Origin_from(v, b) ==
    IF ~(v \in 0..2) THEN Err(OtherError, b) ELSE Ok(v, b)

\* AttributeFlags::from_bits(bits).unwrap(): from_bits is None when a bit
\* outside OPTIONAL | TRANSITIVE | PARTIAL | EXTENDED_LENGTH is set
AttributeFlags_from_bits_unwrap(bits, b) ==
    IF bits % 16 = 0 THEN Ok(bits, b) ELSE Panic(b)

\* the discriminants of AttributeType in the build
AttributeTypes(f) ==
    (0..10) \cup {16, 17, 18, 22, 23, 24, 25, 26, 27, 29, 32, 33,
                  35, 36, 37, 38, 39, 40, 128, 255}
        \cup (IF f.multiprotocol THEN {14, 15} ELSE {})

\* the types Attribute::read has an arm for
ImplementedAttributeTypes(f) ==
    {1, 2, 3, 8, 32} \cup (IF f.multiprotocol THEN {14, 15} ELSE {})

\* What a transmute of a byte that is no discriminant of AttributeType can
\* behave as: a variant of the build, or (-1) a value that is no variant.
\* The variants Attribute::read does not implement all take its default
\* arm; Reserved (0) stands for them.
AttributeTypeUB(f) == ImplementedAttributeTypes(f) \cup {0, -1}

\* AttributeType::from: an unchecked transmute of the byte
AttributeType_from(v, f, ub) ==
    IF v \in AttributeTypes(f) THEN v ELSE ub.at

Community_write(c, b) ==
    u16_write(c.community_value, u32_write(c.community_as, b).buf)

Community_read(b) ==
    Try(u32_read(b), LAMBDA community_as, b1 :
    Try(u16_read(b1), LAMBDA community_value, b2 :
    Ok([community_as |-> community_as,
        community_value |-> community_value], b2)))

LargeCommunity_write(c, b) ==
    u64_write(c.local_data_part_2,
        u64_write(c.local_data_part_1,
            u64_write(c.global_administrator, b).buf).buf)

LargeCommunity_read(b) ==
    Try(u64_read(b), LAMBDA global_administrator, b1 :
    Try(u64_read(b1), LAMBDA local_data_part_1, b2 :
    Try(u64_read(b2), LAMBDA local_data_part_2, b3 :
    Ok([global_administrator |-> global_administrator,
        local_data_part_1 |-> local_data_part_1,
        local_data_part_2 |-> local_data_part_2], b3))))

RECURSIVE write_communities(_, _)
write_communities(cs, b) ==
    IF cs = <<>> THEN Ok(0, b)
    ELSE Try(Community_write(Head(cs), b),
             LAMBDA x, b1 : write_communities(Tail(cs), b1))

RECURSIVE read_communities(_, _)
read_communities(b, acc) ==
    IF ~(remaining(b) > 0) THEN Ok(acc, b)
    ELSE Try(Community_read(b),
             LAMBDA c, b1 : read_communities(b1, Append(acc, c)))

RECURSIVE write_large_communities(_, _)
write_large_communities(cs, b) ==
    IF cs = <<>> THEN Ok(0, b)
    ELSE Try(LargeCommunity_write(Head(cs), b),
             LAMBDA x, b1 : write_large_communities(Tail(cs), b1))

RECURSIVE read_large_communities(_, _)
read_large_communities(b, acc) ==
    IF ~(remaining(b) > 0) THEN Ok(acc, b)
    ELSE Try(LargeCommunity_read(b),
             LAMBDA c, b1 : read_large_communities(b1, Append(acc, c)))

\* impl From<&ASPathSegment> for u8
ASPathSegment_u8(seg) == IF seg.kind = "ASSequence" THEN 2 ELSE seg.ty

\* for value in values { value.write(buffer)?; }
RECURSIVE write_asns(_, _)
write_asns(values, b) ==
    IF values = <<>> THEN Ok(0, b)
    ELSE Try(u32_write(Head(values), b),
             LAMBDA x, b1 : write_asns(Tail(values), b1))

ASPathSegment_write(seg, b) ==
    Try(u8_write(ASPathSegment_u8(seg), b), LAMBDA x, b1 :
    IF seg.kind = "ASSequence"
    THEN Try(u8_write(Len(seg.values) % 256, b1), LAMBDA y, b2 :
         write_asns(seg.values, b2))
    ELSE Err(WriteError, b1))

\* for _ in 0..length { values.push(u32::read(buffer)?); }
RECURSIVE read_asns(_, _, _)
read_asns(b, n, acc) ==
    IF n = 0 THEN Ok(acc, b)
    ELSE Try(u32_read(b),
             LAMBDA v, b1 : read_asns(b1, n - 1, Append(acc, v)))

\* a read that takes type 1 (AS_SET) for a sequence as well
ASPathSegment_read_Sets(b) ==
    Try(u8_read(b), LAMBDA id, b1 :
    IF id \in {1, 2}
    THEN Try(u8_read(b1), LAMBDA length, b2 :
         Try(read_asns(b2, length, <<>>), LAMBDA values, b3 :
         Ok([kind |-> "ASSequence", values |-> values], b3)))
    ELSE Ok([kind |-> "Unknown", ty |-> id], b1))

ASPathSegment_read(b) ==
    Try(u8_read(b), LAMBDA id, b1 :
    IF id = 2
    THEN Try(u8_read(b1), LAMBDA length, b2 :
         Try(read_asns(b2, length, <<>>), LAMBDA values, b3 :
         Ok([kind |-> "ASSequence", values |-> values], b3)))
    ELSE Ok([kind |-> "Unknown", ty |-> id], b1))

\* the afi and safi of the multiprotocol attributes, into temp_buffer
Families_write(v, t) ==
    Try(Family_into(v.afi, t), LAMBDA afi, t0 :
    Try(u16_write(afi, t0), LAMBDA x, t1 :
    Try(Family_into(v.safi, t1), LAMBDA safi, t2 :
    u8_write(safi, t2))))

\* the match of Attribute::write on the value, into temp_buffer
AttributeValue_write(v, t) ==
    CASE v.kind = "Origin" -> u8_write(v.v, t)
      [] v.kind = "ASPath" -> ASPathSegment_write(v.v, t)
      [] v.kind = "NextHop" -> Ok(0, write_bytes(v.v, t))
      [] v.kind = "Communities" -> write_communities(v.v, t)
      [] v.kind = "LargeCommunities" -> write_large_communities(v.v, t)
      [] v.kind = "MPReachableNLRI" ->
            Try(Families_write(v, t), LAMBDA x, t1 :
            Try(u8_write(Len(v.next_hop) % 256, t1), LAMBDA y, t2 :
            Try(u8_write(0, write_bytes(v.next_hop, t2)), LAMBDA z, t3 :
            Ok(0, write_bytes(v.nlri, t3)))))
      [] v.kind = "MPUnreachableNLRI" ->
            Try(Families_write(v, t), LAMBDA x, t1 :
            Ok(0, write_bytes(v.withdrawn_routes, t1)))

Attribute_write(a, b) ==
    Try(u8_write(a.flags, b), LAMBDA x, b1 :
    Try(u8_write(a.ty, b1), LAMBDA y, b2 :
    TryIn(AttributeValue_write(a.value, empty("BigEndian")), b2, LAMBDA z, t :
    write_u8_length_prefixed(t, b2))))

\* the match of Attribute::read on the type: t is temp_buffer, the bounded
\* copy of the value; p is buffer, the parent, positioned after the value.
\* The multiprotocol arms read their fields from buffer.
AttributeValue_read(ty, t, p, f) ==
    CASE ty = 1 ->
            TryIn(u8_read(t), p, LAMBDA o, t1 :
            Try(Origin_from(o, p), LAMBDA origin, p1 :
            Ok([kind |-> "Origin", v |-> origin], p)))
      [] ty = 2 ->
            TryIn(ASPathSegment_read(t), p, LAMBDA seg, t1 :
            Ok([kind |-> "ASPath", v |-> seg], p))
      [] ty = 3 ->
            TryIn(read_bytes_vector(t, len(t)), p, LAMBDA next_hop, t1 :
            Ok([kind |-> "NextHop", v |-> next_hop], p))
      [] ty = 8 ->
            TryIn(read_communities(t, <<>>), p, LAMBDA communities, t1 :
            Ok([kind |-> "Communities", v |-> communities], p))
      [] ty = 32 ->
            TryIn(read_large_communities(t, <<>>), p, LAMBDA communities, t1 :
            Ok([kind |-> "LargeCommunities", v |-> communities], p))
      [] ty = 14 /\ f.multiprotocol ->
            Try(u16_read(p), LAMBDA afi, p1 :
            Try(u8_read(p1), LAMBDA safi, p2 :
            Try(u8_read(p2), LAMBDA next_hop_length, p3 :
            Try(read_buffer(p3, next_hop_length), LAMBDA next_hop, p4 :
            Try(u8_read(p4), LAMBDA reserved, p5 :
            Ok([kind |-> "MPReachableNLRI", afi |-> AFI_from(afi),
                safi |-> SAFI_from(safi), next_hop |-> next_hop.bytes,
                nlri |-> t.bytes], p5))))))
      [] ty = 15 /\ f.multiprotocol ->
            Try(u16_read(p), LAMBDA afi, p1 :
            Try(u8_read(p1), LAMBDA safi, p2 :
            Ok([kind |-> "MPUnreachableNLRI", afi |-> AFI_from(afi),
                safi |-> SAFI_from(safi), withdrawn_routes |-> t.bytes], p2)))
      [] ty = -1 -> UB(p)
      [] OTHER -> Err(ReadError, p)

Attribute_read(b, f, ub) ==
    Try(u8_read(b), LAMBDA bits, b1 :
    Try(AttributeFlags_from_bits_unwrap(bits, b1), LAMBDA flags, b2 :
    Try(u8_read(b2), LAMBDA tb, b3 :
    Try(u8_read(b3), LAMBDA length, b4 :
    Try(read_buffer(b4, length), LAMBDA t, b5 :
    Try(AttributeValue_read(AttributeType_from(tb, f, ub), t, b5, f),
        LAMBDA v, b6 :
    Ok([ty |-> AttributeType_from(tb, f, ub), flags |-> flags, value |-> v],
       b6)))))))

RECURSIVE write_attributes(_, _)
write_attributes(attrs, b) ==
    IF attrs = <<>> THEN Ok(0, b)
    ELSE Try(Attribute_write(Head(attrs), b),
             LAMBDA x, b1 : write_attributes(Tail(attrs), b1))

RECURSIVE read_attributes(_, _, _, _)
read_attributes(b, f, ub, acc) ==
    IF ~(remaining(b) > 0) THEN Ok(acc, b)
    ELSE Try(Attribute_read(b, f, ub),
             LAMBDA a, b1 : read_attributes(b1, f, ub, Append(acc, a)))

----------------------------------------------------------------------------
(* ErrorCode: [kind |-> "Known", v |-> 1..6] for the six named variants,
   [kind |-> "Unknown", v |-> u8] for Unknown(u8) *)

ErrorCode_from(v) ==
    IF v \in 1..6 THEN [kind |-> "Known", v |-> v]
    ELSE [kind |-> "Unknown", v |-> v]

\* impl From<ErrorCode> for u8
ErrorCode_u8(code) == code.v

----------------------------------------------------------------------------
(* Packet *)

\* (x.len() as u16).write(temp_buffer)?; x.write_buffer(temp_buffer)?
write_u16_length_prefixed(x, t) ==
    write_buffer(x, u16_write(len(x) % 65536, t).buf)

\* the fixed fields of the Open arm of Packet::write
Open_write_fixed(m, t) ==
    u32_write(m.bgp_ident,
        u16_write(m.hold_time,
            u16_write(m.autonomous_system,
                u8_write(m.version, t).buf).buf).buf)

\* the match of Packet::write: the body, into temp_buffer
Packet_write_body(m, t) ==
    CASE m.kind = "Open" ->
            Try(Open_write_fixed(m, t), LAMBDA x, t1 :
            TryIn(write_opt_params(m.opt_params, empty("BigEndian")), t1,
                  LAMBDA y, ps : write_u8_length_prefixed(ps, t1)))
      [] m.kind = "Update" ->
            TryIn(write_prefixes(m.withdrawn_routes, empty("BigEndian")), t,
                  LAMBDA x, w :
            Try(write_u16_length_prefixed(w, t), LAMBDA x1, t1 :
            TryIn(write_attributes(m.attributes, empty("BigEndian")), t1,
                  LAMBDA y, a :
            Try(write_u16_length_prefixed(a, t1), LAMBDA y1, t2 :
            TryIn(write_prefixes(m.nlri, empty("BigEndian")), t2,
                  LAMBDA z, n :
            write_u16_length_prefixed(n, t2))))))
      [] m.kind = "Notification" ->
            Try(u8_write(ErrorCode_u8(m.error_code), t), LAMBDA x, t1 :
            Try(u8_write(m.sub_code, t1), LAMBDA y, t2 :
            Ok(0, write_bytes(m.data, t2))))
      [] OTHER -> Ok(0, t)

\* (temp_buffer.len() as u16) + 19
Packet_header_length(body) == ((len(body) % 65536) + 19) % 65536

Packet_write(m, b) ==
    TryIn(Packet_write_body(m, empty("BigEndian")), b, LAMBDA x, t :
    Try(BGPHeader_write(by_type(PacketType_of(m), Packet_header_length(t)), b),
        LAMBDA y, b1 : write_buffer(t, b1)))

\* the hold-timer check of Packet::read
\* a hold-timer check that also refuses 3
HoldTimeUnacceptable_Refuses3(hold_time) == hold_time # 0 /\ hold_time <= 3
HoldTimeUnacceptable(hold_time) == hold_time # 0 /\ hold_time < 3

\* the Open arm of Packet::read
Open_read(t, p, f) ==
    TryIn(u8_read(t), p, LAMBDA version, t1 :
    TryIn(u16_read(t1), p, LAMBDA autonomous_system, t2 :
    TryIn(u16_read(t2), p, LAMBDA hold_time, t3 :
    TryIn(u32_read(t3), p, LAMBDA bgp_ident, t4 :
    TryIn(u8_read(t4), p, LAMBDA opt_params_length, t5 :
    TryIn(read_opt_params(t5, f, <<>>), p, LAMBDA opt_params, t6 :
    IF HoldTimeUnacceptable(hold_time)
    THEN Err(open(UnacceptableHoldTime), p)
    ELSE Ok([kind |-> "Open", version |-> version,
             autonomous_system |-> autonomous_system,
             hold_time |-> hold_time, bgp_ident |-> bgp_ident,
             opt_params |-> opt_params], p)))))))

\* let length = u16::read(buffer)?; Buffer::read_buffer(buffer, length)?
read_u16_length_prefixed(t) ==
    Try(u16_read(t), LAMBDA length, t1 : read_buffer(t1, length))

\* the Update arm of Packet::read
Update_read(t, p, f, ub) ==
    TryIn(read_u16_length_prefixed(t), p, LAMBDA wb, t1 :
    TryIn(read_prefixes(wb, <<>>), p, LAMBDA withdrawn_routes, w1 :
    TryIn(read_u16_length_prefixed(t1), p, LAMBDA ab, t2 :
    TryIn(read_attributes(ab, f, ub, <<>>), p, LAMBDA attributes, a1 :
    TryIn(read_u16_length_prefixed(t2), p, LAMBDA nb, t3 :
    TryIn(read_prefixes(nb, <<>>), p, LAMBDA nlri, n1 :
    Ok([kind |-> "Update", withdrawn_routes |-> withdrawn_routes,
        nlri |-> nlri, attributes |-> attributes], p)))))))

\* the Notification arm of Packet::read
Notification_read(header, t, p) ==
    TryIn(u8_read(t), p, LAMBDA error_code, t1 :
    TryIn(u8_read(t1), p, LAMBDA sub_code, t2 :
    TryIn(read_buffer(t2, header.length - 21), p, LAMBDA data, t3 :
    Ok([kind |-> "Notification", error_code |-> ErrorCode_from(error_code),
        sub_code |-> sub_code, data |-> data.bytes], p))))

\* the match of Packet::read on header.ty: t is the bounded copy of the
\* body, p the parent buffer positioned after the message. A header.ty that
\* is no variant of PacketType matches no arm.
Packet_read_body(header, t, p, f, ub) ==
    CASE header.ty = "Open" -> Open_read(t, p, f)
      [] header.ty = "Update" -> Update_read(t, p, f, ub)
      [] header.ty = "Notification" -> Notification_read(header, t, p)
      [] header.ty = "KeepAlive" -> Ok([kind |-> "KeepAlive"], p)
      [] header.ty = "RouteRefresh" -> Ok([kind |-> "RouteRefresh"], p)
      [] header.ty = "Unexpected" -> Err(ReadError, p)
      [] OTHER -> UB(p)

\* a read that returns the cursor where it was before the message
Packet_read_InPlace(b, f, ub) ==
    Try(BGPHeader_read(b, f, ub), LAMBDA header, b1 :
    Try(read_buffer(b1, header.length - 19), LAMBDA t, b2 :
    Packet_read_body(header, t, b, f, ub)))

\* a read whose body cursor takes all the bytes that remain
Packet_read_WholeChunk(b, f, ub) ==
    Try(BGPHeader_read(b, f, ub), LAMBDA header, b1 :
    Try(read_buffer(b1, remaining(b1)), LAMBDA t, b2 :
    Packet_read_body(header, t, b2, f, ub)))

Packet_read(b, f, ub) ==
    Try(BGPHeader_read(b, f, ub), LAMBDA header, b1 :
    Try(read_buffer(b1, header.length - 19), LAMBDA t, b2 :
    Packet_read_body(header, t, b2, f, ub)))

\* Packet::len
Packet_len(m) ==
    Try(Packet_write(m, empty("BigEndian")), LAMBDA x, b : Ok(len(b), b))

\* for packet in packets { packet.write(buffer).map_err(..WriteError..)?; }
RECURSIVE write_packets(_, _)
write_packets(packets, b) ==
    IF packets = <<>> THEN Ok(0, b)
    ELSE Try(Packet_write(Head(packets), b),
             LAMBDA x, b1 : write_packets(Tail(packets), b1))

\* Write for Buffer: write_all(bytes) is write_bytes_slice(bytes)
stream_write_all(bytes, stream) == Ok(0, write_bytes(bytes, stream))

\* a send that writes each packet into the stream as it is encoded
Packet_send_Direct(stream, packets) ==
    IF write_packets(packets, stream).tag # "Ok"
    THEN Err(WriteError, write_packets(packets, stream).buf)
    ELSE write_packets(packets, stream)

\* Packet::send into a stream that is a Buffer: nothing reaches the stream
\* when a packet fails to encode
Packet_send(stream, packets) ==
    IF write_packets(packets, empty("BigEndian")).tag # "Ok"
    THEN Err(WriteError, stream)
    ELSE stream_write_all(
             write_packets(packets, empty("BigEndian")).buf.bytes, stream)

\* Read for Buffer with a destination of n bytes: the bytes up to the end
\* of the stream, n at most
stream_read(stream, n) ==
    read_n(stream, IF remaining(stream) < n THEN remaining(stream) ELSE n)

\* Option<Vec<Packet>>
None == [kind |-> "Option::None"]
Some(v) == [kind |-> "Option::Some", v |-> v]

----------------------------------------------------------------------------
(* The builds and the undefined-behaviour outcomes *)

FeatureSets == [route_refresh : BOOLEAN, multiprotocol : BOOLEAN]

\* one outcome for each transmute of the build: pt for PacketType::from,
\* at for AttributeType::from
UBOutcomes(f) == [pt : PacketTypeUB(f), at : AttributeTypeUB(f)]

\* the outcomes where no path attribute is decoded, so that
\* AttributeType::from is never called: BGPHeader::read, and Packet::read on
\* a body of zero bytes (an Update of zero bytes has empty blocks)
HeaderUBOutcomes(f) == [pt : PacketTypeUB(f), at : {-1}]

NoResult == [tag |-> "None", val |-> 0, buf |-> empty("BigEndian")]
NoValue == [kind |-> "None"]

Zeros(n) == [i \in 1..n |-> 0]

----------------------------------------------------------------------------
(* SpecHeader: BGPHeader::read and Packet::read on a header drawn field by
   field, at the start of a received chunk or after a KeepAlive message that
   Packet::read has consumed from the same chunk, followed by a body of
   zero bytes that is as long as declared, shorter, or longer. *)

MaxFill == 2

HeaderLengths == {0, 18, 19, 20, 21, 22, 23, 24, 28, 29, 30, 4096, 4097, 65535}
HeaderTypeBytes == {0, 1, 2, 3, 4, 5, 6, 255}
Markers ==
    {FF16,
     [FF16 EXCEPT ![1] = 0],
     [FF16 EXCEPT ![16] = 254],
     Zeros(16)}
Preceding == {0, 19}

BodySizes(l) ==
    (0..MaxFill)
        \cup (IF l \in 19..4097 THEN {l - 19} ELSE {})
        \cup (IF l \in 20..4097 THEN {l - 20} ELSE {})

HeaderInputs ==
    UNION {[len : {l}, ty : HeaderTypeBytes, marker : Markers,
            pre : Preceding, body : BodySizes(l)] : l \in HeaderLengths}

KeepAliveBytes == FF16 \o <<0, 19, 4>>

HeaderBytes(i) ==
    (IF i.pre = 19 THEN KeepAliveBytes ELSE <<>>)
        \o i.marker \o u16_to_be_bytes(i.len) \o <<i.ty>> \o Zeros(i.body)

InitHeader ==
    /\ features \in FeatureSets
    /\ input \in HeaderInputs
    /\ buffer = from_vec(HeaderBytes(input), "BigEndian")
    /\ start = 0
    /\ result = NoResult
    /\ decoded = NoValue
    /\ peeked = NoResult
    /\ child = NoValue
    /\ pc = IF input.pre = 0 THEN "ready" ELSE "first"

\* the iteration of the receive loop that decodes the preceding message
ReadPreceding ==
    /\ pc = "first"
    /\ \E ub \in HeaderUBOutcomes(features) :
          LET r == Packet_read(buffer, features, ub) IN
          /\ r.tag = "Ok"
          /\ buffer' = r.buf
          /\ start' = r.buf.position
    /\ pc' = "ready"
    /\ UNCHANGED <<features, input, result, decoded, peeked, child>>

HeaderRead ==
    /\ pc = "ready"
    /\ \E ub \in HeaderUBOutcomes(features) :
          LET r == BGPHeader_read(buffer, features, ub) IN
          /\ result' = r
          /\ buffer' = r.buf
    /\ start' = buffer.position
    /\ pc' = "header"
    /\ UNCHANGED <<features, input, decoded, peeked, child>>

PacketReadAfterHeader ==
    /\ pc = "ready"
    /\ \E ub \in HeaderUBOutcomes(features) :
          LET r == Packet_read(buffer, features, ub) IN
          /\ result' = r
          /\ buffer' = r.buf
    /\ start' = buffer.position
    /\ pc' = "packet"
    /\ UNCHANGED <<features, input, decoded, peeked, child>>

NextHeader == ReadPreceding \/ HeaderRead \/ PacketReadAfterHeader

SpecHeader == InitHeader /\ [][NextHeader]_vars

\* the bytes from the start of the header to the end of the buffer
Available == Len(buffer.bytes) - start

\* the type bytes that name a message type of the build
EnabledTypeBytes(f) == (1..4) \cup (IF f.route_refresh THEN {5} ELSE {})

IsHeaderError(r, sub) == r.tag = "Err" /\ r.val = header_error(sub)

\* the header is returned as decoded from the drawn fields
HeaderAccepted ==
    /\ result.tag = "Ok"
    /\ result.val.marker = input.marker
    /\ result.val.length = input.len
    /\ PacketType_as_u8(result.val.ty) = input.ty

\* the length checks as the specification states them, on the drawn fields:
\* the global bounds, the four per-type minimums and the truncation check
\* against the bytes available from the start of the header
LengthBoundsPass == input.len >= 19 /\ input.len <= 4096
TypeLengthsPass ==
    /\ input.ty = 4 => input.len = 19
    /\ input.ty = 1 => input.len >= 29
    /\ input.ty = 2 => input.len >= 23
    /\ input.ty = 3 => input.len >= 21
NotTruncated == input.len <= Available
LengthChecksPass == LengthBoundsPass /\ TypeLengthsPass /\ NotTruncated

----------------------------------------------------------------------------
(* Claims on BGPHeader::read, checked under SpecHeader *)

\* C3: BGPHeader::read on at least 19 available bytes fails with
\* BGPError(MessageHeader, BadMessageLength) whenever the length field is
\* below 19 or above 4096, whatever the type and marker bytes are, and
\* accepts length 19 with type KeepAlive and an all-0xFF marker.
C3_HeaderLengthBounds ==
    (pc = "header" /\ Available >= 19) =>
        /\ ~LengthBoundsPass => IsHeaderError(result, BadMessageLength)
        /\ (input.len = 19 /\ input.ty = 4 /\ input.marker = FF16) =>
               (HeaderAccepted /\ result.val = by_type("KeepAlive", 19))

\* a length of 18 is rejected for its length although the type byte is
\* unknown and the marker is wrong
C3_Witness ==
    /\ pc = "header"
    /\ input.len = 18 /\ input.ty = 0 /\ input.marker = Zeros(16)
    /\ IsHeaderError(result, BadMessageLength)

\* C4: with a length field in 19..=4096, BGPHeader::read fails with
\* (MessageHeader, BadMessageLength) for KeepAlive with length # 19, Open
\* with length < 29, Update with length < 23, Notification with length < 21.
C4_TypeLengths ==
    (pc = "header" /\ LengthBoundsPass /\ ~TypeLengthsPass) =>
        IsHeaderError(result, BadMessageLength)

\* an Open header of 28 bytes whose 9 body bytes are all there
C4_Witness ==
    /\ pc = "header"
    /\ input.ty = 1 /\ input.len = 28 /\ input.body = 9
    /\ input.marker = FF16
    /\ IsHeaderError(result, BadMessageLength)

\* C5: BGPHeader::read fails with (MessageHeader, BadMessageLength) whenever
\* the declared length exceeds the bytes available from the start of this
\* header to the end of the buffer, at any cursor position, so that the body
\* read that follows an accepted header never fails for lack of bytes.
C5_Truncation ==
    /\ (pc = "header" /\ ~NotTruncated) =>
           IsHeaderError(result, BadMessageLength)
    /\ (pc = "packet" /\ ~NotTruncated) =>
           IsHeaderError(result, BadMessageLength)

\* C6: BGPHeader::read reports the error of the earliest failing check in
\* the order global length bounds, KeepAlive, Open, Update, Notification
\* length, truncation, unknown type, marker, and returns the header only
\* when no check fails.
C6_FirstFailingCheck ==
    pc = "header" =>
        IF ~LengthChecksPass THEN IsHeaderError(result, BadMessageLength)
        ELSE IF input.ty \notin EnabledTypeBytes(features)
            THEN IsHeaderError(result, BadMessageType)
        ELSE IF input.marker # FF16
            THEN IsHeaderError(result, ConnectionNotSynchronized)
        ELSE HeaderAccepted

\* C7: BGPHeader::read on a header whose length checks all pass fails with
\* (MessageHeader, BadMessageType) for every type byte that is not an
\* enabled message type: 0 and 6..=255 always, 5 without route refresh.
C7_UnknownType ==
    (pc = "header" /\ LengthChecksPass
        /\ input.ty \notin EnabledTypeBytes(features)) =>
        IsHeaderError(result, BadMessageType)

\* C8: BGPHeader::read on a header whose length and type checks all pass
\* fails with (MessageHeader, ConnectionNotSynchronized) whenever any of the
\* 16 marker bytes is not 0xFF.
C8_Marker ==
    (pc = "header" /\ LengthChecksPass
        /\ input.ty \in EnabledTypeBytes(features)
        /\ input.marker # FF16) =>
        IsHeaderError(result, ConnectionNotSynchronized)

\* a KeepAlive header whose marker differs from 0xFF in its last byte only
C8_Witness ==
    /\ pc = "header"
    /\ input.ty = 4 /\ input.len = 19
    /\ input.marker = [FF16 EXCEPT ![16] = 254]
    /\ IsHeaderError(result, ConnectionNotSynchronized)

----------------------------------------------------------------------------
(* SpecPacket: a Packet value drawn from the values the build can construct
   is written into an empty big-endian buffer, the position is reset and
   Packet::read decodes the bytes. *)

MaxCaps == 2
MaxRoutes == 1
MaxAttrs == 1
MaxData == 2

SeqsUpTo(S, n) == UNION {[1..k -> S] : k \in 0..n}

HoldTimes == {0, 1, 2, 3, 4, 240, 65535}

\* the capabilities of the build: the ones of test_open_packet, the
\* multiprotocol families and the unknown ones
Capabilities(f) ==
    {[kind |-> "FourOctetASNumberSupport", v |-> <<0, 0, 169, 35527>>],
     [kind |-> "LongLivedGracefulRestart"],
     [kind |-> "Unknown", id |-> 3, bytes |-> <<7>>]}
        \cup (IF f.route_refresh
              THEN {[kind |-> "RouteRefresh"], [kind |-> "EnhancedRouteRefresh"]}
              ELSE {})
        \cup (IF f.multiprotocol
              THEN [kind : {"MultiProtocolExtensions"},
                    afi : {AFI_from(1), AFI_from(3)},
                    safi : {SAFI_from(1)}]
              ELSE {})

OptParams(f) ==
    {<<>>,
     <<[kind |-> "Capabilities", capabilities |-> <<>>],
       [kind |-> "Capabilities",
        capabilities |-> <<[kind |-> "LongLivedGracefulRestart"]>>]>>}
        \cup {<<[kind |-> "Capabilities", capabilities |-> cs]>> :
                 cs \in SeqsUpTo(Capabilities(f), MaxCaps)}

Opens(f) ==
    [kind : {"Open"}, version : {4}, autonomous_system : {64600},
     hold_time : HoldTimes, bgp_ident : {<<1939, 52823>>},
     opt_params : OptParams(f)]

\* RoutePrefix::IPv4(prefix_length, prefix): the last one carries fewer
\* bytes than its length calls for
Prefixes ==
    {[prefix_length |-> 16, prefix |-> <<255, 255>>],
     [prefix_length |-> 9, prefix |-> <<255>>]}

Attribute_new(ty, flags, value) == [ty |-> ty, flags |-> flags, value |-> value]

\* the three attributes of test_update_packet
TestOrigin == Attribute_new(1, 0, [kind |-> "Origin", v |-> 0])
TestNextHop ==
    Attribute_new(3, 128, [kind |-> "NextHop", v |-> <<127, 168, 0, 1>>])
TestCommunities ==
    Attribute_new(8, 128,
        [kind |-> "Communities",
         v |-> <<[community_as |-> <<1939, 52823>>, community_value |-> 1],
                 [community_as |-> <<1939, 52824>>, community_value |-> 2]>>])

\* Attribute::new takes any type with any value
Attributes(f) ==
    {TestOrigin, TestNextHop, TestCommunities,
     Attribute_new(2, 64, [kind |-> "ASPath",
         v |-> [kind |-> "ASSequence", values |-> <<<<0, 64600>>>>]]),
     Attribute_new(2, 64, [kind |-> "ASPath",
         v |-> [kind |-> "Unknown", ty |-> 1]]),
     Attribute_new(32, 192, [kind |-> "LargeCommunities",
         v |-> <<[global_administrator |-> <<0, 0, 0, 64600>>,
                  local_data_part_1 |-> <<0, 0, 0, 1>>,
                  local_data_part_2 |-> <<65535, 0, 0, 2>>]>>]),
     Attribute_new(1, 64, [kind |-> "NextHop", v |-> <<1>>]),
     Attribute_new(4, 128, [kind |-> "Origin", v |-> 2])}
        \cup (IF f.multiprotocol
              THEN {Attribute_new(14, 128, [kind |-> "MPReachableNLRI",
                        afi |-> AFI_from(1), safi |-> SAFI_from(1),
                        next_hop |-> <<10, 0, 0, 1>>, nlri |-> <<8, 10>>]),
                    Attribute_new(15, 128, [kind |-> "MPUnreachableNLRI",
                        afi |-> AFI_from(2), safi |-> SAFI_from(1),
                        withdrawn_routes |-> <<8, 10>>])}
              ELSE {})

test_update_packet ==
    [kind |-> "Update",
     withdrawn_routes |-> <<[prefix_length |-> 16, prefix |-> <<255, 255>>]>>,
     nlri |-> <<[prefix_length |-> 8, prefix |-> <<255>>]>>,
     attributes |-> <<TestOrigin, TestNextHop, TestCommunities>>]

Updates(f) ==
    {test_update_packet}
        \cup [kind : {"Update"},
              withdrawn_routes : SeqsUpTo(Prefixes, MaxRoutes),
              nlri : {<<>>, <<[prefix_length |-> 8, prefix |-> <<255>>]>>},
              attributes : SeqsUpTo(Attributes(f), MaxAttrs)]

ErrorCodes ==
    {[kind |-> "Known", v |-> v] : v \in 1..6}
        \cup {[kind |-> "Unknown", v |-> v] : v \in {0, 1, 7, 255}}

Notifications ==
    [kind : {"Notification"}, error_code : ErrorCodes, sub_code : {0, 1},
     data : SeqsUpTo({0, 255}, MaxData)]

\* the Notification with the longest data a message of 4096 bytes holds,
\* and the one with a byte more
LongNotifications ==
    [kind : {"Notification"}, error_code : {[kind |-> "Known", v |-> 6]},
     sub_code : {0}, data : {Zeros(4075), Zeros(4076)}]

Packets(f) ==
    Opens(f) \cup Updates(f) \cup Notifications \cup LongNotifications
        \cup {[kind |-> "KeepAlive"]}
        \cup (IF f.route_refresh THEN {[kind |-> "RouteRefresh"]} ELSE {})

InitPacket ==
    /\ features \in FeatureSets
    /\ input \in Packets(features)
    /\ buffer = empty("BigEndian")
    /\ start = 0
    /\ result = NoResult
    /\ decoded = NoValue
    /\ peeked = NoResult
    /\ child = NoValue
    /\ pc = "new"

PacketWrite ==
    /\ pc = "new"
    /\ result' = Packet_write(input, buffer)
    /\ buffer' = result'.buf
    /\ start' = buffer.position
    /\ pc' = IF result'.tag = "Ok" THEN "written" ELSE "write_failed"
    /\ UNCHANGED <<features, input, decoded, peeked, child>>

ResetPosition ==
    /\ pc = "written"
    /\ buffer' = reset_position(buffer)
    /\ pc' = "reset"
    /\ UNCHANGED <<features, input, start, result, decoded, peeked, child>>

PacketRead ==
    /\ pc = "reset"
    /\ \E ub \in UBOutcomes(features) :
          result' = Packet_read(buffer, features, ub)
    /\ buffer' = result'.buf
    /\ start' = buffer.position
    /\ decoded' = IF result'.tag = "Ok" THEN result'.val ELSE NoValue
    /\ pc' = "read"
    /\ UNCHANGED <<features, input, peeked, child>>

NextPacket == PacketWrite \/ ResetPosition \/ PacketRead

SpecPacket == InitPacket /\ [][NextPacket]_vars

IsOpenError(r, sub) == r.tag = "Err" /\ r.val = open(sub)

----------------------------------------------------------------------------
(* Claims on Packet::write and Packet::read, checked under SpecPacket *)

\* C1: for every Packet value that can be constructed, Packet::write into an
\* empty big-endian buffer succeeds, and after reset_position Packet::read
\* succeeds and returns a value equal to the one written.
C1_RoundTrip ==
    /\ pc # "write_failed"
    /\ pc = "read" => (result.tag = "Ok" /\ decoded = input)

\* C9: Packet::read of an otherwise well-formed Open message fails with
\* BGPError(OpenMessage, UnacceptableHoldTime) when hold_time is 1 or 2 and
\* succeeds, returning the hold time, when it is 0 or at least 3.
C9_HoldTime ==
    (pc = "read" /\ input.kind = "Open") =>
        IF input.hold_time \in {1, 2}
        THEN IsOpenError(result, UnacceptableHoldTime)
        ELSE /\ result.tag = "Ok"
             /\ decoded.kind = "Open"
             /\ decoded.hold_time = input.hold_time

\* an Open with hold time 2 and a capabilities parameter is refused
C9_Witness ==
    /\ pc = "read"
    /\ input.kind = "Open" /\ input.hold_time = 2
    /\ input.opt_params # <<>>
    /\ IsOpenError(result, UnacceptableHoldTime)

----------------------------------------------------------------------------
(* SpecBytes: a byte sequence drawn from a small alphabet is handed to a
   decoder, either as it is or framed as the body of a message for
   Packet::read, and a value that was decoded is written back into an empty
   big-endian buffer. *)

MaxLen == 3

\* 0: no flags, length 0; 1, 2, 3: message, attribute, parameter and
\* capability ids and lengths; 5: the route-refresh message type; 11: no
\* discriminant of AttributeType, no registered capability id
Bytes == {0, 1, 2, 3, 5, 11}

Frames ==
    {"RoutePrefix", "Capability", "OptionalParameter", "Attribute",
     "Message", "UpdateAttributes"}

BytesInputs == [frame : Frames, bytes : SeqsUpTo(Bytes, MaxLen)]

\* the bytes the decoder gets. Message: the first byte is the type byte of
\* a header that declares the rest as its body. UpdateAttributes: an Update
\* message without routes whose path-attribute block is the bytes.
FrameBytes(i) ==
    CASE i.frame = "Message" ->
            IF i.bytes = <<>> THEN FF16 \o <<0, 19>>
            ELSE FF16 \o u16_to_be_bytes(18 + Len(i.bytes)) \o i.bytes
      [] i.frame = "UpdateAttributes" ->
            FF16 \o u16_to_be_bytes(25 + Len(i.bytes)) \o <<2>>
                \o <<0, 0>> \o u16_to_be_bytes(Len(i.bytes)) \o i.bytes
                \o <<0, 0>>
      [] OTHER -> i.bytes

\* Attribute::read executes the transmute of AttributeType::from only
AttributeUBOutcomes(f) == [pt : {"Invalid"}, at : AttributeTypeUB(f)]

\* the read function of the frame
FrameRead(i, b, f, ub) ==
    CASE i.frame = "RoutePrefix" -> RoutePrefix_read(b)
      [] i.frame = "Capability" -> Capability_read(b, f)
      [] i.frame = "OptionalParameter" -> OptionalParameter_read(b, f)
      [] i.frame = "Attribute" -> Attribute_read(b, f, ub)
      [] OTHER -> Packet_read(b, f, ub)

\* the write function of the frame
FrameWrite(i, v, b) ==
    CASE i.frame = "RoutePrefix" -> RoutePrefix_write(v, b)
      [] i.frame = "Capability" -> Capability_write(v, b)
      [] i.frame = "OptionalParameter" -> OptionalParameter_write(v, b)
      [] i.frame = "Attribute" -> Attribute_write(v, b)
      [] OTHER -> Packet_write(v, b)

InitBytes ==
    /\ features \in FeatureSets
    /\ input \in BytesInputs
    /\ buffer = from_vec(FrameBytes(input), "BigEndian")
    /\ start = 0
    /\ result = NoResult
    /\ decoded = NoValue
    /\ peeked = NoResult
    /\ child = NoValue
    /\ pc = "bytes"

\* RoutePrefix::read, Capability::read and OptionalParameter::read call
\* neither PacketType::from nor AttributeType::from
DecodePlain ==
    /\ pc = "bytes"
    /\ input.frame \in {"RoutePrefix", "Capability", "OptionalParameter"}
    /\ result' = FrameRead(input, buffer, features, [pt |-> "Invalid", at |-> -1])
    /\ buffer' = result'.buf
    /\ start' = buffer.position
    /\ decoded' = IF result'.tag = "Ok" THEN result'.val ELSE NoValue
    /\ pc' = "decoded"
    /\ UNCHANGED <<features, input, peeked, child>>

DecodeAttribute ==
    /\ pc = "bytes"
    /\ input.frame = "Attribute"
    /\ \E ub \in AttributeUBOutcomes(features) :
          result' = FrameRead(input, buffer, features, ub)
    /\ buffer' = result'.buf
    /\ start' = buffer.position
    /\ decoded' = IF result'.tag = "Ok" THEN result'.val ELSE NoValue
    /\ pc' = "decoded"
    /\ UNCHANGED <<features, input, peeked, child>>

DecodePacket ==
    /\ pc = "bytes"
    /\ input.frame \in {"Message", "UpdateAttributes"}
    /\ \E ub \in UBOutcomes(features) :
          result' = FrameRead(input, buffer, features, ub)
    /\ buffer' = result'.buf
    /\ start' = buffer.position
    /\ decoded' = IF result'.tag = "Ok" THEN result'.val ELSE NoValue
    /\ pc' = "decoded"
    /\ UNCHANGED <<features, input, peeked, child>>

Encode ==
    /\ pc = "decoded"
    /\ result.tag = "Ok"
    /\ result' = FrameWrite(input, decoded, empty("BigEndian"))
    /\ buffer' = result'.buf
    /\ start' = 0
    /\ pc' = "encoded"
    /\ UNCHANGED <<features, input, decoded, peeked, child>>

NextBytes == DecodePlain \/ DecodeAttribute \/ DecodePacket \/ Encode

SpecBytes == InitBytes /\ [][NextBytes]_vars

----------------------------------------------------------------------------
(* Claims on the decoders, checked under SpecBytes *)

\* C2: for every byte sequence handed to Packet::read and to the nested
\* decoders, decoding ends by returning a decoded value or an Error: no
\* input reaches a panic or a conversion of a raw byte to an enum value that
\* has no such variant.
C2_DecodeTotal ==
    pc = "decoded" => result.tag \in {"Ok", "Err"}

\* the capability ids Capability::read knows in some build
CapabilityRegistry == {1, 2, 65, 70, 71}

\* the bytes are id, len and a payload of len bytes, the id outside the
\* registry
UnknownCapabilityBytes ==
    /\ input.frame = "Capability"
    /\ Len(input.bytes) >= 2
    /\ input.bytes[1] \notin CapabilityRegistry
    /\ Len(input.bytes) = 2 + input.bytes[2]

\* C10: for every capability id outside the registry {1, 2, 65, 70, 71} and
\* every payload, Capability::read of id, len, payload yields
\* Unknown(id, payload), and Capability::write of that value succeeds and
\* emits exactly the original bytes.
C10_UnknownPassthrough ==
    /\ (pc \in {"decoded", "encoded"} /\ UnknownCapabilityBytes) =>
           decoded = [kind |-> "Unknown", id |-> input.bytes[1],
                      bytes |-> SubSeq(input.bytes, 3, Len(input.bytes))]
    /\ (pc = "encoded" /\ UnknownCapabilityBytes) =>
           (result.tag = "Ok" /\ result.buf.bytes = input.bytes)

----------------------------------------------------------------------------
(* SpecPeek: T::peek and then T::read on a buffer that holds a byte sequence
   and stands at its first or second byte, for T one of u16, RoutePrefix,
   Attribute, BGPHeader and Packet. *)

PeekFrames == {"u16", "RoutePrefix", "Attribute", "BGPHeader", "Message"}

PeekInputs ==
    [frame : PeekFrames, bytes : SeqsUpTo(Bytes, MaxLen), position : 0..1]

\* BGPHeader gets the bytes of the Message frame: a header whose type byte
\* is the first byte and that declares the rest as its body
PeekBytes(i) ==
    IF i.frame = "BGPHeader"
    THEN FrameBytes([frame |-> "Message", bytes |-> i.bytes])
    ELSE FrameBytes(i)

\* the buffer before the peek
PeekBuffer(i) ==
    [from_vec(PeekBytes(i), "BigEndian") EXCEPT !.position = i.position]

\* T::read
PeekRead(i, b, f, ub) ==
    CASE i.frame = "u16" -> u16_read(b)
      [] i.frame = "BGPHeader" -> BGPHeader_read(b, f, ub)
      [] OTHER -> FrameRead(i, b, f, ub)

\* the transmutes T::read can execute
PeekUBOutcomes(i, f) ==
    CASE i.frame = "Message" -> UBOutcomes(f)
      [] i.frame = "BGPHeader" -> HeaderUBOutcomes(f)
      [] i.frame = "Attribute" -> AttributeUBOutcomes(f)
      [] OTHER -> {[pt |-> "Invalid", at |-> -1]}

InitPeek ==
    /\ features \in FeatureSets
    /\ input \in {i \in PeekInputs : i.position <= Len(PeekBytes(i))}
    /\ buffer = PeekBuffer(input)
    /\ start = buffer.position
    /\ result = NoResult
    /\ decoded = NoValue
    /\ peeked = NoResult
    /\ child = NoValue
    /\ pc = "bytes"

Peek ==
    /\ pc = "bytes"
    /\ \E ub \in PeekUBOutcomes(input, features) :
          peeked' = peek(PeekRead(input, buffer, features, ub),
                         buffer.position)
    /\ buffer' = peeked'.buf
    /\ start' = buffer.position
    /\ pc' = "peeked"
    /\ UNCHANGED <<features, input, result, decoded, child>>

\* the read that follows a peek that returned
ReadAfterPeek ==
    /\ pc = "peeked"
    /\ peeked.tag \in {"Ok", "Err"}
    /\ \E ub \in PeekUBOutcomes(input, features) :
          result' = PeekRead(input, buffer, features, ub)
    /\ buffer' = result'.buf
    /\ start' = buffer.position
    /\ decoded' = IF result'.tag = "Ok" THEN result'.val ELSE NoValue
    /\ pc' = "read_after_peek"
    /\ UNCHANGED <<features, input, peeked, child>>

NextPeek == Peek \/ ReadAfterPeek

SpecPeek == InitPeek /\ [][NextPeek]_vars

----------------------------------------------------------------------------
(* Claims on WriteRead::peek, checked under SpecPeek *)

\* C11: for every buffer state and every decodable type T, T::peek returns
\* a result (a value or an Error) and leaves the bytes and the position of
\* the buffer as they were before the call, and the T::read that follows
\* returns the same result as the peek did.
C11_PeekFrame ==
    /\ pc = "peeked" =>
           (peeked.tag \in {"Ok", "Err"} /\ buffer = PeekBuffer(input))
    /\ pc = "read_after_peek" =>
           (result.tag = peeked.tag /\ result.val = peeked.val)

----------------------------------------------------------------------------
(* SpecPrefix: a RoutePrefix::IPv4 of every prefix length of an IPv4 address
   with as many bytes as the length calls for is written into an empty
   buffer, the buffer is rewound and the prefix is read back. *)

ByteOrders == {"BigEndian", "LittleEndian"}

\* 128: only the first bit; 255: every bit, also the bits below the prefix
\* length in the last byte
PrefixBytes == {0, 128, 255}

PrefixInputs ==
    UNION {{[prefix_length |-> n, prefix |-> s] :
               s \in [1..((n + 7) \div 8) -> PrefixBytes]} : n \in 0..32}

InitPrefix ==
    /\ features \in FeatureSets
    /\ input \in PrefixInputs
    /\ \E order \in ByteOrders : buffer = empty(order)
    /\ start = 0
    /\ result = NoResult
    /\ decoded = NoValue
    /\ peeked = NoResult
    /\ child = NoValue
    /\ pc = "new"

PrefixWrite ==
    /\ pc = "new"
    /\ result' = RoutePrefix_write(input, buffer)
    /\ buffer' = result'.buf
    /\ start' = buffer.position
    /\ pc' = IF result'.tag = "Ok" THEN "written" ELSE "write_failed"
    /\ UNCHANGED <<features, input, decoded, peeked, child>>

PrefixRead ==
    /\ pc = "reset"
    /\ result' = RoutePrefix_read(buffer)
    /\ buffer' = result'.buf
    /\ start' = buffer.position
    /\ decoded' = IF result'.tag = "Ok" THEN result'.val ELSE NoValue
    /\ pc' = "read"
    /\ UNCHANGED <<features, input, peeked, child>>

NextPrefix == PrefixWrite \/ ResetPosition \/ PrefixRead

SpecPrefix == InitPrefix /\ [][NextPrefix]_vars

----------------------------------------------------------------------------
(* Claims on RoutePrefix, checked under SpecPrefix *)

\* C12: for every prefix length n in 0..=32 and every byte sequence s of
\* ceil(n/8) bytes, writing IPv4(n, s) succeeds and emits the byte n and
\* then the bytes of s as they are, 1 + ceil(n/8) bytes, and reading them
\* back returns IPv4(n, s).
C12_PrefixRoundTrip ==
    /\ pc # "write_failed"
    /\ pc \in {"written", "reset", "read"} =>
           /\ buffer.bytes = <<input.prefix_length>> \o input.prefix
           /\ Len(buffer.bytes) = 1 + (input.prefix_length + 7) \div 8
    /\ pc = "read" => (result.tag = "Ok" /\ decoded = input)

\* a prefix of 9 bits whose second byte has the 7 bits below the prefix
\* length set has been read back
C12_Witness ==
    /\ pc = "read"
    /\ input = [prefix_length |-> 9, prefix |-> <<255, 255>>]
    /\ decoded = input
    /\ buffer.position = 3

----------------------------------------------------------------------------
(* Claims on the length of the message Packet::write emits, checked under
   SpecPacket *)

\* the length field of the header at the start of the bytes
HeaderLengthField(bytes) == u16_from_be_bytes(SubSeq(bytes, 17, 18))

\* the body of the message
BodyLength(m) == len(Packet_write_body(m, empty("BigEndian")).buf)

\* C13: for every Packet that Packet::write encodes, the length field of
\* the header it emits is 19 plus the length of the body, is the number of
\* bytes written for the message, and lies in 19..=4096.
C13_HeaderLength ==
    pc = "written" =>
        /\ HeaderLengthField(buffer.bytes) = 19 + BodyLength(input)
        /\ HeaderLengthField(buffer.bytes) = Len(buffer.bytes)
        /\ HeaderLengthField(buffer.bytes) \in 19..4096

\* C14: the Update of test_update_packet is encoded in 19 (header)
\* + 2+3 (withdrawn) + 2+(3+1 + 3+4 + 3+12) (attributes) + 2+2 (nlri)
\* = 56 bytes, each attribute with flags, type and length byte before its
\* value, and decoding the bytes returns the Update.
C14_UpdateLength ==
    /\ (pc = "written" /\ input = test_update_packet) =>
           Len(buffer.bytes) =
               19 + (2 + 3) + (2 + ((3 + 1) + (3 + 4) + (3 + 12))) + (2 + 2)
    /\ (pc = "read" /\ input = test_update_packet) =>
           (result.tag = "Ok" /\ decoded = input)

\* the Update of test_update_packet has been written and read back
C14_Witness ==
    /\ pc = "read"
    /\ input = test_update_packet
    /\ decoded = test_update_packet
    /\ Len(buffer.bytes) = 56

\* C14 as stated: the encoding is 19 + 2+3 + 2+(3+1+3+4+1+1+12) + 2+2
\* bytes long
C14_StatedLength ==
    /\ (pc = "written" /\ input = test_update_packet) =>
           Len(buffer.bytes) =
               19 + (2 + 3) + (2 + (3 + 1 + 3 + 4 + 1 + 1 + 12)) + (2 + 2)
    /\ (pc = "read" /\ input = test_update_packet) =>
           (result.tag = "Ok" /\ decoded = input)

----------------------------------------------------------------------------
(* SpecBuffer: the operations of Buffer on a buffer that holds a few bytes
   and stands anywhere from its first byte to its end: reading n bytes as a
   vector or as an array, writing data, and taking a cursor of n bytes with
   read_buffer and then reading, writing or skipping on that cursor. *)

MaxBuf == 3

BufferBytes == {1, 2, 3}
WriteData == SeqsUpTo({8, 9}, 2)

\* the bytes and position of the buffer, the count n of the reads and the
\* data of the write
BufferInputs ==
    {i \in [bytes : SeqsUpTo(BufferBytes, MaxBuf), position : 0..MaxBuf,
            order : ByteOrders, n : 0..(MaxBuf + 1), data : WriteData] :
        i.position <= Len(i.bytes)}

\* the buffer before the operation
InputBuffer(i) ==
    [from_vec(i.bytes, i.order) EXCEPT !.position = i.position]

\* Buffer has no code that depends on a cargo feature
InitBuffer ==
    /\ features = [route_refresh |-> FALSE, multiprotocol |-> FALSE]
    /\ input \in BufferInputs
    /\ buffer = InputBuffer(input)
    /\ start = buffer.position
    /\ result = NoResult
    /\ decoded = NoValue
    /\ peeked = NoResult
    /\ child = NoValue
    /\ pc = "ready"

ReadBytesVector ==
    /\ pc = "ready"
    /\ result' = read_bytes_vector(buffer, input.n)
    /\ buffer' = result'.buf
    /\ pc' = "read_vector"
    /\ UNCHANGED <<features, input, start, decoded, peeked, child>>

ReadBytesArray ==
    /\ pc = "ready"
    /\ result' = read_bytes_array(buffer, input.n)
    /\ buffer' = result'.buf
    /\ pc' = "read_array"
    /\ UNCHANGED <<features, input, start, decoded, peeked, child>>

\* write_bytes_array, write_bytes_slice and write_bytes_vector
WriteBytes ==
    /\ pc = "ready"
    /\ buffer' = write_bytes(input.data, buffer)
    /\ result' = Ok(0, buffer')
    /\ pc' = "written_bytes"
    /\ UNCHANGED <<features, input, start, decoded, peeked, child>>

\* Buffer::read_buffer(buffer, n): the cursor it returns owns its bytes
ReadBuffer ==
    /\ pc = "ready"
    /\ result' = read_buffer(buffer, input.n)
    /\ buffer' = result'.buf
    /\ child' = IF result'.tag = "Ok" THEN result'.val ELSE NoValue
    /\ pc' = "sub"
    /\ UNCHANGED <<features, input, start, decoded, peeked>>

\* u8::read on the cursor read_buffer returned
ChildRead ==
    /\ pc = "sub"
    /\ child # NoValue
    /\ child' = u8_read(child).buf
    /\ pc' = "sub_used"
    /\ UNCHANGED <<features, input, buffer, start, result, decoded, peeked>>

\* write_bytes_vector on the cursor read_buffer returned
ChildWrite ==
    /\ pc = "sub"
    /\ child # NoValue
    /\ child' = write_bytes(input.data, child)
    /\ pc' = "sub_used"
    /\ UNCHANGED <<features, input, buffer, start, result, decoded, peeked>>

\* skip(1) on the cursor read_buffer returned
ChildSkip ==
    /\ pc = "sub"
    /\ child # NoValue
    /\ child' = skip(child, 1).buf
    /\ pc' = "sub_used"
    /\ UNCHANGED <<features, input, buffer, start, result, decoded, peeked>>

NextBuffer ==
    \/ ReadBytesVector \/ ReadBytesArray \/ WriteBytes
    \/ ReadBuffer \/ ChildRead \/ ChildWrite \/ ChildSkip

SpecBuffer == InitBuffer /\ [][NextBuffer]_vars

----------------------------------------------------------------------------
(* Claims on Buffer, checked under SpecBuffer *)

\* the bytes from the position of the input buffer on
InputRemaining == Len(input.bytes) - input.position

\* the next n bytes of the input buffer
NextBytesOfInput ==
    SubSeq(input.bytes, input.position + 1, input.position + input.n)

\* C15: read_bytes_vector(n) and read_bytes_array::<N>() return the next n
\* bytes in order and advance the position by n when remaining() >= n, and
\* return ReadError, with no byte read and the position unmoved, when
\* remaining() < n; neither panics.
C15_ReadBytes ==
    pc \in {"read_vector", "read_array"} =>
        /\ buffer.bytes = input.bytes
        /\ IF InputRemaining >= input.n
           THEN /\ result.tag = "Ok"
                /\ result.val = NextBytesOfInput
                /\ buffer.position = input.position + input.n
           ELSE /\ result.tag = "Err"
                /\ result.val = ReadError
                /\ buffer.position = input.position

\* a read of more bytes than remain after the position has been refused
C15_Witness ==
    /\ pc = "read_vector"
    /\ input.position = 1
    /\ input.n = Len(input.bytes)
    /\ input.n >= 2
    /\ result.tag = "Err"

\* C16: read_buffer(parent, length) with length <= parent.remaining()
\* advances the parent by length and returns a cursor that holds those
\* bytes, stands at position 0 and has the byte order of the parent; a
\* read, write or skip on that cursor leaves the bytes and the position of
\* the parent as read_buffer left them.
C16_ReadBuffer ==
    (pc \in {"sub", "sub_used"} /\ input.n <= InputRemaining) =>
        /\ result.tag = "Ok"
        /\ result.val = [bytes |-> NextBytesOfInput, position |-> 0,
                         order |-> input.order]
        /\ pc = "sub" => child = result.val
        /\ buffer.bytes = input.bytes
        /\ buffer.position = input.position + input.n

\* a little-endian parent gave a cursor of two bytes from its middle and
\* data was written to the cursor
C16_Witness ==
    /\ pc = "sub_used"
    /\ input.order = "LittleEndian"
    /\ input.position = 1 /\ input.n = 2
    /\ Len(child.bytes) > 2
    /\ buffer.position = 3

\* the bytes of the input buffer with data written over them from the
\* position on
Overwritten ==
    [i \in 1..(IF input.position + Len(input.data) > Len(input.bytes)
               THEN input.position + Len(input.data)
               ELSE Len(input.bytes)) |->
        IF i > input.position /\ i <= input.position + Len(input.data)
        THEN input.data[i - input.position]
        ELSE input.bytes[i]]

\* C17: writing data of k bytes at position p appends the data when p is
\* at the end of the buffer, overwrites the bytes at p..p+k when p is
\* before the end, and leaves the position at p + k.
C17_WriteBytes ==
    pc = "written_bytes" =>
        /\ buffer.bytes = Overwritten
        /\ buffer.position = input.position + Len(input.data)

----------------------------------------------------------------------------
(* SpecStream: Packet::send writes a list of packets into a Buffer that
   serves as the stream, the peer may write further bytes after them, the
   stream is rewound and Packet::receive reads one chunk from it and decodes
   it message by message. *)

MaxPackets == 2

\* the two Updates of test_multiple_packets, a KeepAlive, an Open, an Open
\* with a hold time Packet::read refuses, and a Notification whose code
\* Unknown(1) has the byte of MessageHeader
StreamPackets ==
    {[kind |-> "Update",
      withdrawn_routes |-> <<[prefix_length |-> 15, prefix |-> <<255, 255>>]>>,
      nlri |-> <<>>, attributes |-> <<>>],
     [kind |-> "Update",
      withdrawn_routes |-> <<[prefix_length |-> 8, prefix |-> <<255>>]>>,
      nlri |-> <<>>, attributes |-> <<>>],
     [kind |-> "KeepAlive"],
     [kind |-> "Open", version |-> 4, autonomous_system |-> 64600,
      hold_time |-> 240, bgp_ident |-> <<1939, 52823>>, opt_params |-> <<>>],
     [kind |-> "Open", version |-> 4, autonomous_system |-> 64600,
      hold_time |-> 2, bgp_ident |-> <<1939, 52823>>, opt_params |-> <<>>],
     [kind |-> "Notification", error_code |-> [kind |-> "Unknown", v |-> 1],
      sub_code |-> 0, data |-> <<>>]}

\* the bytes the peer writes after the packets: none, one byte, 18 bytes,
\* a KeepAlive message, a message of type 5, and an Update whose path
\* attribute has the flags byte 1
\* an Update of 27 bytes whose three sections are empty: the last two
\* bytes of its body are in no section
LooseUpdateBytes == FF16 \o <<0, 27, 2>> \o <<0, 0, 0, 0, 0, 0, 9, 9>>

StreamTails ==
    {<<>>, <<0>>, Zeros(18), KeepAliveBytes, FF16 \o <<0, 19, 5>>,
     FrameBytes([frame |-> "UpdateAttributes", bytes |-> <<1, 1, 0>>]),
     LooseUpdateBytes \o KeepAliveBytes,
     LooseUpdateBytes \o LooseUpdateBytes \o <<0>>}

StreamInputs ==
    [packets : SeqsUpTo(StreamPackets, MaxPackets), tail : StreamTails]

InitStream ==
    /\ features \in FeatureSets
    /\ input \in StreamInputs
    /\ buffer = empty("BigEndian")
    /\ start = 0
    /\ result = NoResult
    /\ decoded = NoValue
    /\ peeked = NoResult
    /\ child = NoValue
    /\ pc = "new"

\* Packet::send(edge, stream, packets)
Send ==
    /\ pc = "new"
    /\ result' = Packet_send(buffer, input.packets)
    /\ buffer' = result'.buf
    /\ pc' = IF result'.tag = "Ok" THEN "sent" ELSE "send_failed"
    /\ UNCHANGED <<features, input, start, decoded, peeked, child>>

\* the peer writes the tail into the stream
PeerWrite ==
    /\ pc = "sent"
    /\ input.tail # <<>>
    /\ buffer' = stream_write_all(input.tail, buffer).buf
    /\ pc' = "tailed"
    /\ UNCHANGED <<features, input, start, result, decoded, peeked, child>>

\* buffer.reset_position() before the stream is read
Rewind ==
    /\ \/ pc = "sent" /\ input.tail = <<>>
       \/ pc = "tailed"
    /\ buffer' = reset_position(buffer)
    /\ pc' = "rewound"
    /\ UNCHANGED <<features, input, start, result, decoded, peeked, child>>

\* Packet::receive up to its loop: one read of at most 4096 bytes; no byte
\* read is Ok(None), else the bytes become a big-endian Buffer
ReceiveRead ==
    /\ pc = "rewound"
    /\ buffer' = stream_read(buffer, 4096).buf
    /\ IF Len(stream_read(buffer, 4096).val) = 0
       THEN /\ result' = Ok(None, buffer')
            /\ pc' = "received"
            /\ UNCHANGED <<decoded, child>>
       ELSE /\ child' = from_vec(stream_read(buffer, 4096).val, "BigEndian")
            /\ decoded' = <<>>
            /\ pc' = "receiving"
            /\ UNCHANGED result
    /\ UNCHANGED <<features, input, start, peeked>>

\* one turn of while buffer.remaining() >= 19: packets.push(Self::read(..)?)
ReceiveStep ==
    /\ pc = "receiving"
    /\ remaining(child) >= 19
    /\ \E ub \in UBOutcomes(features) :
          /\ child' = Packet_read(child, features, ub).buf
          /\ IF Packet_read(child, features, ub).tag = "Ok"
             THEN /\ decoded' =
                         Append(decoded, Packet_read(child, features, ub).val)
                  /\ pc' = "receiving"
                  /\ UNCHANGED result
             ELSE /\ result' = Packet_read(child, features, ub)
                  /\ pc' = "received"
                  /\ UNCHANGED decoded
    /\ UNCHANGED <<features, input, buffer, start, peeked>>

\* the end of Packet::receive: bytes that remain are an error
ReceiveEnd ==
    /\ pc = "receiving"
    /\ ~(remaining(child) >= 19)
    /\ result' = IF remaining(child) > 0 THEN Err(ReadError, child)
                 ELSE Ok(Some(decoded), child)
    /\ pc' = "received"
    /\ UNCHANGED <<features, input, buffer, start, decoded, peeked, child>>

NextStream ==
    Send \/ PeerWrite \/ Rewind \/ ReceiveRead \/ ReceiveStep \/ ReceiveEnd

SpecStream == InitStream /\ [][NextStream]_vars

----------------------------------------------------------------------------
(* Claims on Packet::send and Packet::receive, checked under SpecStream *)

\* C18: Packet::receive on a chunk of 1..=4096 bytes returns: the list of
\* the messages it decoded, in the order of the chunk, when the chunk is
\* consumed to its last byte, and an Error, never a list, when a message
\* fails to decode or when 1..=18 bytes remain after the last message.
C18_Receive ==
    (pc = "received" /\ child # NoValue) =>
        /\ result.tag \in {"Ok", "Err"}
        /\ result.tag = "Ok" =>
               (remaining(child) = 0 /\ result.val = Some(decoded))
        /\ remaining(child) \in 1..18 => result.tag = "Err"

\* C19: for every list of packets that Packet::send encodes into a stream,
\* Packet::receive from the bytes of the stream returns Some of the list
\* that was sent.
C19_SendReceive ==
    (pc = "received" /\ input.tail = <<>>) =>
        (result.tag = "Ok" /\ result.val = Some(input.packets))

----------------------------------------------------------------------------
(* A claim on Attribute::read, checked under SpecBytes *)

\* the bytes are valid flags, a type byte outside the implemented types of
\* the build, a length and a value of that length
UnimplementedAttributeBytes ==
    /\ input.frame = "Attribute"
    /\ Len(input.bytes) >= 3
    /\ input.bytes[1] % 16 = 0
    /\ input.bytes[2] \notin ImplementedAttributeTypes(features)
    /\ Len(input.bytes) = 3 + input.bytes[3]

\* C20: Attribute::read of an attribute whose type byte is none of the
\* implemented types (1, 2, 3, 8, 32, and 14 and 15 with multiprotocol)
\* returns ReadError, for every such byte in 0..=255, the bytes that name
\* no attribute type included.
C20_UnimplementedType ==
    (pc = "decoded" /\ UnimplementedAttributeBytes) =>
        (result.tag = "Err" /\ result.val = ReadError)

----------------------------------------------------------------------------
(* SpecAttribute: two path attributes are written one after the other into
   an empty buffer, the buffer is rewound and the two are read back with
   Attribute::read. *)

AttributeInputs(f) ==
    [first : Attributes(f),
     sibling : {TestOrigin, TestNextHop, TestCommunities}]

InitAttribute ==
    /\ features \in FeatureSets
    /\ input \in AttributeInputs(features)
    /\ buffer = empty("BigEndian")
    /\ start = 0
    /\ result = NoResult
    /\ decoded = NoValue
    /\ peeked = NoResult
    /\ child = NoValue
    /\ pc = "new"

\* for attribute in attributes { attribute.write(attributes_buffer)?; }
AttributesWrite ==
    /\ pc = "new"
    /\ result' = write_attributes(<<input.first, input.sibling>>, buffer)
    /\ buffer' = result'.buf
    /\ start' = buffer.position
    /\ pc' = IF result'.tag = "Ok" THEN "written" ELSE "write_failed"
    /\ UNCHANGED <<features, input, decoded, peeked, child>>

\* Attribute::read of the first attribute
AttributeRead ==
    /\ pc = "reset"
    /\ \E ub \in AttributeUBOutcomes(features) :
          result' = Attribute_read(buffer, features, ub)
    /\ buffer' = result'.buf
    /\ start' = buffer.position
    /\ decoded' = IF result'.tag = "Ok" THEN result'.val ELSE NoValue
    /\ pc' = "read_first"
    /\ UNCHANGED <<features, input, peeked, child>>

\* Attribute::read of the attribute that follows, as the loop of the Update
\* arm of Packet::read calls it after a read that returned Ok
SiblingRead ==
    /\ pc = "read_first"
    /\ result.tag = "Ok"
    /\ \E ub \in AttributeUBOutcomes(features) :
          result' = Attribute_read(buffer, features, ub)
    /\ buffer' = result'.buf
    /\ start' = buffer.position
    /\ decoded' = IF result'.tag = "Ok" THEN result'.val ELSE NoValue
    /\ pc' = "read_sibling"
    /\ UNCHANGED <<features, input, peeked, child>>

NextAttribute ==
    AttributesWrite \/ ResetPosition \/ AttributeRead \/ SiblingRead

SpecAttribute == InitAttribute /\ [][NextAttribute]_vars

----------------------------------------------------------------------------
(* A claim on Attribute::read, checked under SpecAttribute *)

\* C21: for every implemented attribute type, MPReachableNLRI and
\* MPUnreachableNLRI included, an Attribute::read that returns Ok has
\* advanced the buffer by 3 + value_len bytes (flags, type, length byte
\* and the declared value), so that the attribute that follows is decoded
\* from the byte right after the declared value, as it was written.
C21_BoundedRead ==
    /\ (pc = "read_first" /\ result.tag = "Ok") =>
           buffer.position = 3 + buffer.bytes[3]
    /\ pc = "read_sibling" =>
           (result.tag = "Ok" /\ decoded = input.sibling)

----------------------------------------------------------------------------
(* SpecNumber: a value of an integer type is written into an empty buffer
   of either byte order, the buffer is rewound and the type is read. *)

\* the least and the greatest value of the type, and values whose bytes
\* all differ
NumberValues(ty) ==
    CASE ty = "u8" -> {<<v>> : v \in {0, 1, 127, 128, 255}}
      [] ty = "i8" -> {<<v>> : v \in {-128, -127, -1, 0, 1, 127}}
      [] ty = "u16" -> {<<v>> : v \in {0, 1, 255, 256, 258, 65535}}
      [] ty = "i16" -> {<<v>> : v \in {-32768, -255, -1, 0, 258, 32767}}
      [] ty = "u32" -> {<<0, 0>>, <<0, 1>>, <<258, 772>>, <<65535, 65535>>}
      [] ty = "i32" ->
            {<<-32768, 0>>, <<-1, 65535>>, <<-1, 0>>, <<0, 0>>, <<258, 772>>,
             <<32767, 65535>>}
      [] ty = "u64" ->
            {<<0, 0, 0, 0>>, <<0, 0, 0, 1>>, <<258, 772, 1286, 1800>>,
             <<65535, 65535, 65535, 65535>>}
      [] OTHER ->
            {<<-32768, 0, 0, 0>>, <<-1, 65535, 65535, 65535>>,
             <<0, 0, 0, 0>>, <<258, 772, 1286, 1800>>,
             <<32767, 65535, 65535, 65535>>}

NumberInputs ==
    UNION {[ty : {ty}, v : NumberValues(ty), order : ByteOrders] :
              ty \in NumberTypes}

\* the integer codecs have no code that depends on a cargo feature
InitNumber ==
    /\ features = [route_refresh |-> FALSE, multiprotocol |-> FALSE]
    /\ input \in NumberInputs
    /\ buffer = empty(input.order)
    /\ start = 0
    /\ result = NoResult
    /\ decoded = NoValue
    /\ peeked = NoResult
    /\ child = NoValue
    /\ pc = "new"

NumberWrite ==
    /\ pc = "new"
    /\ result' = number_write(input.ty, input.v, buffer)
    /\ buffer' = result'.buf
    /\ start' = buffer.position
    /\ pc' = IF result'.tag = "Ok" THEN "written" ELSE "write_failed"
    /\ UNCHANGED <<features, input, decoded, peeked, child>>

NumberRead ==
    /\ pc = "reset"
    /\ result' = number_read(input.ty, buffer)
    /\ buffer' = result'.buf
    /\ start' = buffer.position
    /\ decoded' = IF result'.tag = "Ok" THEN result'.val ELSE NoValue
    /\ pc' = "read"
    /\ UNCHANGED <<features, input, peeked, child>>

NextNumber == NumberWrite \/ ResetPosition \/ NumberRead

SpecNumber == InitNumber /\ [][NextNumber]_vars

----------------------------------------------------------------------------
(* A claim on the integer codecs, checked under SpecNumber *)

\* byte k of the value of the input, byte 0 the least significant, by
\* place value in the limb that holds the byte, taken modulo 2^16
ByteOfInput(k) ==
    ((input.v[Len(input.v) - (k \div 2)] % 65536)
         \div (IF k % 2 = 0 THEN 1 ELSE 256)) % 256

\* C22: for each of u8, i8, u16, i16, u32, i32, u64, i64, each byte order
\* and each value v, writing v into an empty buffer emits as many bytes as
\* the type is wide, the most significant first under BigEndian and the
\* least significant first under LittleEndian, and reading the type from
\* the rewound buffer returns v.
C22_NumberRoundTrip ==
    /\ pc # "write_failed"
    /\ pc \in {"written", "reset", "read"} =>
           /\ Len(buffer.bytes) = Width(input.ty)
           /\ \A i \in 1..Width(input.ty) :
                  buffer.bytes[i] =
                      IF input.order = "BigEndian"
                      THEN ByteOfInput(Width(input.ty) - i)
                      ELSE ByteOfInput(i - 1)
    /\ pc = "read" =>
           /\ result.tag = "Ok"
           /\ decoded = input.v
           /\ buffer.position = Width(input.ty)

\* a negative i32 has been written least significant byte first and read
\* back
C22_Witness ==
    /\ pc = "read"
    /\ input = [ty |-> "i32", v |-> <<-1, 0>>, order |-> "LittleEndian"]
    /\ buffer.bytes = <<0, 0, 255, 255>>
    /\ decoded = <<-1, 0>>

----------------------------------------------------------------------------
(* SpecEncode: a capability, an AS-path segment, a packet or a list of
   packets is written into a target buffer that is empty or holds bytes
   already, and the bytes of an AS-path segment are read. *)

\* the capabilities of the build and Unknown ones, with ids inside and
\* outside the registry
CapabilityValues(f) ==
    Capabilities(f)
        \cup [kind : {"Unknown"}, id : {0, 1, 65, 255}, bytes : {<<>>, <<7>>}]

SegmentValues ==
    [kind : {"Unknown"}, ty : {0, 1, 2, 3, 255}]
        \cup [kind : {"ASSequence"}, values : {<<>>, <<<<0, 64600>>>>}]

\* type, count and 0 to 9 bytes after them
SegmentBytes ==
    {<<>>}
        \cup {<<ty>> : ty \in {0, 1, 2, 3, 255}}
        \cup {<<ty, count>> \o [k \in 1..n |-> 16 * k + 1] :
                 ty \in {1, 2, 3}, count \in 0..2, n \in 0..9}

Update_of(attribute) ==
    [kind |-> "Update", withdrawn_routes |-> <<>>, nlri |-> <<>>,
     attributes |-> <<attribute>>]

Open_of(capability) ==
    [kind |-> "Open", version |-> 4, autonomous_system |-> 64600,
     hold_time |-> 240, bgp_ident |-> <<1939, 52823>>,
     opt_params |-> <<[kind |-> "Capabilities",
                      capabilities |-> <<capability>>]>>]

\* packets that are encoded, and packets with an Unknown capability, an
\* Unknown AS-path segment, an Unexpected AFI and an Unexpected SAFI
EncodePackets(f) ==
    {[kind |-> "KeepAlive"], test_update_packet,
     Open_of([kind |-> "Unknown", id |-> 3, bytes |-> <<7>>]),
     Update_of(Attribute_new(2, 64, [kind |-> "ASPath",
                   v |-> [kind |-> "Unknown", ty |-> 1]]))}
        \cup (IF f.multiprotocol
              THEN {Open_of([kind |-> "MultiProtocolExtensions",
                             afi |-> AFI_from(3), safi |-> SAFI_from(1)]),
                    Update_of(Attribute_new(15, 128,
                        [kind |-> "MPUnreachableNLRI", afi |-> AFI_from(1),
                         safi |-> SAFI_from(3),
                         withdrawn_routes |-> <<8, 10>>]))}
              ELSE {})

\* the target before the write: empty, a KeepAlive message with the
\* position after it, three bytes with the position after the first
Targets ==
    {empty("BigEndian"),
     [from_vec(KeepAliveBytes, "BigEndian") EXCEPT !.position = 19],
     [from_vec(<<1, 2, 3>>, "LittleEndian") EXCEPT !.position = 1]}

EncodeInputs(f) ==
    [frame : {"Capability"}, value : CapabilityValues(f), target : Targets]
        \cup [frame : {"ASPathSegment"}, value : SegmentValues, target : Targets]
        \cup [frame : {"Packet"}, value : EncodePackets(f), target : Targets]
        \cup [frame : {"Packets"}, value : SeqsUpTo(EncodePackets(f), 2),
              target : Targets]
        \cup [frame : {"SegmentBytes"}, value : SegmentBytes,
              target : {empty("BigEndian")}]

InitEncode ==
    /\ features \in FeatureSets
    /\ input \in EncodeInputs(features)
    /\ buffer = IF input.frame = "SegmentBytes"
                THEN from_vec(input.value, "BigEndian")
                ELSE input.target
    /\ start = buffer.position
    /\ result = NoResult
    /\ decoded = NoValue
    /\ peeked = NoResult
    /\ child = NoValue
    /\ pc = "new"

CapabilityWrite ==
    /\ pc = "new"
    /\ input.frame = "Capability"
    /\ result' = Capability_write(input.value, buffer)
    /\ buffer' = result'.buf
    /\ pc' = "capability_written"
    /\ UNCHANGED <<features, input, start, decoded, peeked, child>>

SegmentWrite ==
    /\ pc = "new"
    /\ input.frame = "ASPathSegment"
    /\ result' = ASPathSegment_write(input.value, buffer)
    /\ buffer' = result'.buf
    /\ pc' = "segment_written"
    /\ UNCHANGED <<features, input, start, decoded, peeked, child>>

SegmentRead ==
    /\ pc = "new"
    /\ input.frame = "SegmentBytes"
    /\ result' = ASPathSegment_read(buffer)
    /\ buffer' = result'.buf
    /\ decoded' = IF result'.tag = "Ok" THEN result'.val ELSE NoValue
    /\ pc' = "segment_read"
    /\ UNCHANGED <<features, input, start, peeked, child>>

\* Packet::write into the target
TargetWrite ==
    /\ pc = "new"
    /\ input.frame = "Packet"
    /\ result' = Packet_write(input.value, buffer)
    /\ buffer' = result'.buf
    /\ pc' = "packet_written"
    /\ UNCHANGED <<features, input, start, decoded, peeked, child>>

\* Packet::send of the list with the target as the stream
TargetSend ==
    /\ pc = "new"
    /\ input.frame = "Packets"
    /\ result' = Packet_send(buffer, input.value)
    /\ buffer' = result'.buf
    /\ pc' = "packets_sent"
    /\ UNCHANGED <<features, input, start, decoded, peeked, child>>

NextEncode ==
    CapabilityWrite \/ SegmentWrite \/ SegmentRead \/ TargetWrite
        \/ TargetSend

SpecEncode == InitEncode /\ [][NextEncode]_vars

----------------------------------------------------------------------------
(* Claims on Capability::write, ASPathSegment, Packet::write and
   Packet::send, checked under SpecEncode *)

\* C23: Capability::write of an Unknown(id, bytes) capability returns
\* BGPError(OpenMessage, UnsupportedOptionalParameter), and
\* Capability::write of a capability that is not Unknown never returns
\* that error.
C23_UnknownCapabilityWrite ==
    pc = "capability_written" =>
        (input.value.kind = "Unknown"
            <=> IsOpenError(result, UnsupportedOptionalParameter))

\* Unknown(65, [7]), whose id is the id of FourOctetASNumberSupport, has
\* been refused
C23_Witness ==
    /\ pc = "capability_written"
    /\ input.value = [kind |-> "Unknown", id |-> 65, bytes |-> <<7>>]
    /\ IsOpenError(result, UnsupportedOptionalParameter)

\* the ASN k of the bytes of a segment: bytes 4k - 1 .. 4k + 2, as limbs
SegmentASN(bytes, k) ==
    <<bytes[4 * k - 1] * 256 + bytes[4 * k],
      bytes[4 * k + 1] * 256 + bytes[4 * k + 2]>>

\* C24: ASPathSegment::read of a segment whose type byte is not 2 returns
\* Unknown(type), and ASPathSegment::write of an Unknown(type) returns
\* WriteError; a segment of type 2 is read as a count and count ASNs of 4
\* bytes, and the read returns ReadError when fewer than 4 * count bytes
\* follow the count.
C24_Segment ==
    /\ (pc = "segment_written" /\ input.value.kind = "Unknown") =>
           (result.tag = "Err" /\ result.val = WriteError)
    /\ (pc = "segment_read" /\ Len(input.value) >= 1
            /\ input.value[1] # 2) =>
           /\ result.tag = "Ok"
           /\ decoded = [kind |-> "Unknown", ty |-> input.value[1]]
    /\ (pc = "segment_read" /\ Len(input.value) >= 2
            /\ input.value[1] = 2) =>
           IF Len(input.value) - 2 >= 4 * input.value[2]
           THEN /\ result.tag = "Ok"
                /\ decoded =
                       [kind |-> "ASSequence",
                        values |-> [k \in 1..input.value[2] |->
                                       SegmentASN(input.value, k)]]
                /\ buffer.position = 2 + 4 * input.value[2]
           ELSE result.tag = "Err" /\ result.val = ReadError

\* a segment of type 2 with count 2 and 7 bytes after it has been refused
C24_Witness ==
    /\ pc = "segment_read"
    /\ Len(input.value) = 9
    /\ input.value[1] = 2 /\ input.value[2] = 2
    /\ result.val = ReadError

\* some packet of the list fails to encode
SomeFails(packets) ==
    \E i \in 1..Len(packets) :
        Packet_write(packets[i], empty("BigEndian")).tag # "Ok"

\* C26: when Packet::write returns an error, the bytes and the position of
\* the target buffer are as before the call; and when a packet of the list
\* passed to Packet::send fails to encode, send returns an error and no
\* byte of any packet of the list is written to the sink.
C26_NoPartialWrite ==
    /\ (pc = "packet_written" /\ result.tag # "Ok") =>
           buffer = input.target
    /\ (pc = "packets_sent" /\ SomeFails(input.value)) =>
           (result.tag = "Err" /\ buffer = input.target)

\* a list of a KeepAlive and a packet with an Unknown AS-path segment has
\* been sent to a sink that holds bytes already
C26_Witness ==
    /\ pc = "packets_sent"
    /\ Len(input.value) = 2
    /\ input.value[1] = [kind |-> "KeepAlive"]
    /\ input.value[2].kind = "Update"
    /\ input.target.position = 1
    /\ result.tag = "Err"

----------------------------------------------------------------------------
(* SpecOpen: an Open message is written, the byte that holds the length of
   its optional parameters is replaced, and the message is read. *)

FourOctetAS == [kind |-> "FourOctetASNumberSupport", v |-> <<0, 0, 169, 35527>>]

\* a Capabilities parameter of n FourOctetASNumberSupport capabilities:
\* 2 + 10 * n bytes on the wire
CapabilitiesOf(n) ==
    [kind |-> "Capabilities", capabilities |-> [k \in 1..n |-> FourOctetAS]]

\* optional parameters of 0, 12, 34, 244 and 264 bytes
OpenOptParams ==
    {<<>>, <<CapabilitiesOf(1)>>, <<CapabilitiesOf(1), CapabilitiesOf(2)>>,
     <<CapabilitiesOf(12), CapabilitiesOf(12)>>,
     <<CapabilitiesOf(13), CapabilitiesOf(13)>>}

\* the bytes a peer puts in place of the length of the optional parameters
LengthBytes == {0, 1, 12, 255}

OpenInputs ==
    [packet : [kind : {"Open"}, version : {4}, autonomous_system : {64600},
               hold_time : {240, 2}, bgp_ident : {<<1939, 52823>>},
               opt_params : OpenOptParams],
     byte : LengthBytes]

InitOpen ==
    /\ features \in FeatureSets
    /\ input \in OpenInputs
    /\ buffer = empty("BigEndian")
    /\ start = 0
    /\ result = NoResult
    /\ decoded = NoValue
    /\ peeked = NoResult
    /\ child = NoValue
    /\ pc = "new"

OpenWrite ==
    /\ pc = "new"
    /\ result' = Packet_write(input.packet, buffer)
    /\ buffer' = result'.buf
    /\ pc' = IF result'.tag = "Ok" THEN "open_written" ELSE "write_failed"
    /\ UNCHANGED <<features, input, start, decoded, peeked, child>>

\* the message with byte 29, the length of the optional parameters,
\* replaced; child keeps the message as it was written
Tamper ==
    /\ pc = "open_written"
    /\ child' = reset_position(buffer)
    /\ buffer' = [buffer EXCEPT !.bytes[29] = input.byte]
    /\ pc' = "written"
    /\ UNCHANGED <<features, input, start, result, decoded, peeked>>

OpenRead ==
    /\ pc = "reset"
    /\ \E ub \in UBOutcomes(features) :
          result' = Packet_read(buffer, features, ub)
    /\ buffer' = result'.buf
    /\ decoded' = IF result'.tag = "Ok" THEN result'.val ELSE NoValue
    /\ pc' = "open_read"
    /\ UNCHANGED <<features, input, start, peeked, child>>

NextOpen == OpenWrite \/ Tamper \/ ResetPosition \/ OpenRead

SpecOpen == InitOpen /\ [][NextOpen]_vars

\* the result of Packet::read of the message as it was written
ReadOfWritten(ub) == Packet_read(child, features, ub)

----------------------------------------------------------------------------
(* SpecOps: a buffer made by from_vec, capacity or empty, and any sequence
   of the operations of Buffer on it. buffer is the buffer, result the
   result of the last operation and decoded its name. A write is taken
   while the buffer holds no more than MaxOpsLen bytes after it. *)

MaxOpsLen == 4

OpsBytes == {<<>>, <<255>>, <<0, 255>>, <<255, 0, 255>>}

OpsNumbers ==
    {[ty |-> "u16", v |-> <<255>>], [ty |-> "i16", v |-> <<-256>>],
     [ty |-> "i32", v |-> <<-1, 0>>]}

OpsCounts == 0..(MaxOpsLen + 1)

InitOps ==
    /\ features = [route_refresh |-> FALSE, multiprotocol |-> FALSE]
    /\ input = NoValue
    /\ \E order \in ByteOrders :
          \/ \E bytes \in OpsBytes : buffer = from_vec(bytes, order)
          \/ \E n \in 0..2 : buffer = capacity(n, order)
          \/ buffer = empty(order)
    /\ start = 0
    /\ result = NoResult
    /\ decoded = "new"
    /\ peeked = NoResult
    /\ child = NoValue
    /\ pc = "ops"

\* the step of an operation with result r, named name
Op(name, r) ==
    /\ result' = r
    /\ buffer' = r.buf
    /\ decoded' = name
    /\ UNCHANGED <<features, input, start, peeked, child, pc>>

OpU8Write ==
    /\ pc = "ops"
    /\ \E v \in {0, 255} :
          /\ len(buffer) + 1 <= MaxOpsLen
          /\ Op("u8::write", u8_write(v, buffer))

OpNumberWrite ==
    /\ pc = "ops"
    /\ \E n \in OpsNumbers :
          /\ len(buffer) + Width(n.ty) <= MaxOpsLen
          /\ Op("number::write", number_write(n.ty, n.v, buffer))

OpWriteBytes ==
    /\ pc = "ops"
    /\ \E data \in OpsBytes :
          /\ len(buffer) + Len(data) <= MaxOpsLen
          /\ Op("write_bytes_vector", Ok(0, write_bytes(data, buffer)))

OpWriteBuffer ==
    /\ pc = "ops"
    /\ \E data \in OpsBytes, order \in ByteOrders :
          /\ len(buffer) + Len(data) <= MaxOpsLen
          /\ Op("write_buffer", write_buffer(from_vec(data, order), buffer))

OpU8Read ==
    /\ pc = "ops"
    /\ Op("u8::read", u8_read(buffer))

OpNumberRead ==
    /\ pc = "ops"
    /\ \E ty \in {"i8", "u16", "i32", "u64"} :
          Op("number::read", number_read(ty, buffer))

OpReadBytesVector ==
    /\ pc = "ops"
    /\ \E n \in OpsCounts :
          Op("read_bytes_vector", read_bytes_vector(buffer, n))

OpReadBytesArray ==
    /\ pc = "ops"
    /\ \E n \in OpsCounts :
          Op("read_bytes_array", read_bytes_array(buffer, n))

OpReadBuffer ==
    /\ pc = "ops"
    /\ \E n \in OpsCounts : Op("read_buffer", read_buffer(buffer, n))

OpSkip ==
    /\ pc = "ops"
    /\ \E n \in OpsCounts : Op("skip", skip(buffer, n))

OpPeek ==
    /\ pc = "ops"
    /\ \E ty \in {"u8", "u16", "i32"} :
          Op("peek", peek(number_read(ty, buffer), buffer.position))

OpResetPosition ==
    /\ pc = "ops"
    /\ Op("reset_position", Ok(0, reset_position(buffer)))

NextOps ==
    OpU8Write \/ OpNumberWrite \/ OpWriteBytes \/ OpWriteBuffer \/ OpU8Read
        \/ OpNumberRead \/ OpReadBytesVector \/ OpReadBytesArray
        \/ OpReadBuffer \/ OpSkip \/ OpPeek \/ OpResetPosition

SpecOps == InitOps /\ [][NextOps]_vars

\* 0 <= position <= bytes.len()
PositionInBounds ==
    /\ 0 <= buffer.position
    /\ buffer.position <= len(buffer)

\* an operation that failed left the bytes and the position as they were
FailureKeepsBuffer ==
    result'.tag = "Err" => buffer' = buffer

\* C27: after any sequence of operations of Buffer on a buffer made by
\* from_vec, capacity or empty (writes and reads of integers and bytes,
\* read_buffer, skip, peek, reset_position, failing calls included),
\* 0 <= position <= bytes.len() holds, so remaining() does not underflow;
\* and a read or a skip that fails leaves position and bytes unchanged.
C27_PositionInBounds ==
    /\ [](PositionInBounds /\ remaining(buffer) >= 0)
    /\ [][FailureKeepsBuffer]_vars

\* a skip has failed on a buffer that holds bytes and was read to its end
C27_Witness ==
    /\ decoded = "skip"
    /\ result.tag = "Err"
    /\ buffer.position = len(buffer)
    /\ buffer.position > 0

----------------------------------------------------------------------------
(* Claims on the position after Packet::read, checked under SpecStream *)

RECURSIVE Boundary(_, _)
\* the end of message n of the bytes, by the length fields of the headers
Boundary(bytes, n) ==
    IF n = 0 THEN 0
    ELSE Boundary(bytes, n - 1)
             + bytes[Boundary(bytes, n - 1) + 17] * 256
             + bytes[Boundary(bytes, n - 1) + 18]

\* C28: whenever Packet::read started at position p returns a packet, the
\* position afterwards is p + header.length, whatever the length fields of
\* the body declare and however many bytes of the body were left unread;
\* so each Packet::read of the loop of receive starts at the header of the
\* next message.
C28_ReadAdvance ==
    (pc = "receiving" \/ (pc = "received" /\ child # NoValue
                             /\ result.tag = "Ok")) =>
        child.position = Boundary(child.bytes, Len(decoded))

\* an Update of 27 bytes with two bytes unread, and the KeepAlive after it,
\* have been read
C28_Witness ==
    /\ pc = "receiving"
    /\ child.bytes = LooseUpdateBytes \o KeepAliveBytes
    /\ Len(decoded) = 2
    /\ decoded[2] = [kind |-> "KeepAlive"]
    /\ child.position = 46

----------------------------------------------------------------------------
(* SpecUpdate: an Update message of 23, 24 or 25 bytes is read. The input
   is the body: 4, 5 or 6 bytes after the header. *)

UpdateBodyBytes == {0, 1, 64, 255}

UpdateBodies ==
    [1..4 -> UpdateBodyBytes] \cup [1..5 -> UpdateBodyBytes]
        \cup [1..6 -> {0, 1, 64}]

InitUpdate ==
    /\ features \in FeatureSets
    /\ input \in UpdateBodies
    /\ buffer = from_vec(FF16 \o <<0, 19 + Len(input), 2>> \o input,
                         "BigEndian")
    /\ start = 0
    /\ result = NoResult
    /\ decoded = NoValue
    /\ peeked = NoResult
    /\ child = NoValue
    /\ pc = "new"

\* BGPHeader::read of the message, peeked
UpdateHeaderPeek ==
    /\ pc = "new"
    /\ \E ub \in UBOutcomes(features) :
          peeked' = peek(BGPHeader_read(buffer, features, ub), buffer.position)
    /\ buffer' = peeked'.buf
    /\ pc' = "header_peeked"
    /\ UNCHANGED <<features, input, start, result, decoded, child>>

UpdateRead ==
    /\ pc = "header_peeked"
    /\ \E ub \in UBOutcomes(features) :
          result' = Packet_read(buffer, features, ub)
    /\ buffer' = result'.buf
    /\ decoded' = IF result'.tag = "Ok" THEN result'.val ELSE NoValue
    /\ pc' = "update_read"
    /\ UNCHANGED <<features, input, start, peeked, child>>

NextUpdate == UpdateHeaderPeek \/ UpdateRead

SpecUpdate == InitUpdate /\ [][NextUpdate]_vars

EmptyUpdate ==
    [kind |-> "Update", withdrawn_routes |-> <<>>, nlri |-> <<>>,
     attributes |-> <<>>]

\* C29: an Update message whose header length is 23 or 24 passes the
\* validation of the header, and Packet::read of it returns ReadError; an
\* Update of 25 bytes is read to a packet when its three section lengths
\* are 0, and the packet is Update([], [], []).
C29_ShortUpdate ==
    /\ pc \in {"header_peeked", "update_read"} => peeked.tag = "Ok"
    /\ (pc = "update_read" /\ Len(input) \in {4, 5}) =>
           (result.tag = "Err" /\ result.val = ReadError)
    /\ (pc = "update_read" /\ Len(input) = 6) =>
           /\ result.tag = "Ok" <=> input = Zeros(6)
           /\ result.tag = "Ok" => decoded = EmptyUpdate

----------------------------------------------------------------------------
(* SpecStreamFair: SpecStream with the loop of receive running on. A step
   of receive changes pc or the cursor of the chunk; ReceiveTurn is what
   such a step does to the two, and it is enabled from the read of the
   stream to the return. *)

ReceiveTurn ==
    /\ pc \in {"rewound", "receiving"}
    /\ pc' \in {"receiving", "received"}
    /\ child' \in
           (IF pc = "rewound"
            THEN {child, from_vec(stream_read(buffer, 4096).val, "BigEndian")}
            ELSE {[child EXCEPT !.position = q] :
                      q \in child.position..Len(child.bytes)})

SpecStreamFair == SpecStream /\ WF_<<pc, child>>(ReceiveTurn)

\* a turn of the loop of receive that goes on to the next turn has
\* consumed at least 19 bytes
TurnConsumes ==
    (pc = "receiving" /\ pc' = "receiving") =>
        child'.position >= child.position + 19

\* 19 bytes at least for each message decoded, inside the chunk
MessagesBounded ==
    pc = "receiving" =>
        /\ 19 * Len(decoded) <= child.position
        /\ child.position <= Len(child.bytes)

\* the frames that are one element of an inner decode loop
ElementFrames == {"RoutePrefix", "Capability", "OptionalParameter", "Attribute"}

\* in the build f, an element that is read from a cursor of up to MaxLen
\* bytes, and a community that is read from a cursor of up to 6 bytes,
\* leave fewer bytes than there were
ElementsConsume(f) ==
    /\ \A frame \in ElementFrames, bytes \in SeqsUpTo(Bytes, MaxLen),
          ub \in AttributeUBOutcomes(f) :
           FrameRead([frame |-> frame, bytes |-> bytes],
                     from_vec(bytes, "BigEndian"), f, ub).tag = "Ok" =>
               remaining(FrameRead([frame |-> frame, bytes |-> bytes],
                                   from_vec(bytes, "BigEndian"), f, ub).buf)
                   < Len(bytes)
    /\ \A bytes \in SeqsUpTo({0, 255}, 6) :
           Community_read(from_vec(bytes, "BigEndian")).tag = "Ok" =>
               remaining(Community_read(from_vec(bytes, "BigEndian")).buf)
                   < Len(bytes)

\* C30: Packet::receive returns on every chunk: each turn of its loop
\* returns an error or consumes at least 19 bytes of the chunk, so that at
\* most floor(chunk_len / 19) messages are decoded; and each element read
\* by an inner loop (prefix, attribute, capability, optional parameter,
\* community) fails or leaves fewer bytes in its cursor than there were.
C30_ReceiveTerminates ==
    /\ (pc = "rewound") ~> (pc = "received")
    /\ [][TurnConsumes]_vars
    /\ [](MessagesBounded /\ ((pc = "received" /\ child = NoValue)
                                => ElementsConsume(features)))

\* receive has returned two messages from a chunk of 46 bytes
C30_Witness ==
    /\ pc = "received"
    /\ child # NoValue
    /\ Len(child.bytes) = 46
    /\ result.tag = "Ok"
    /\ Len(decoded) = 2

====
